---- MODULE Spec2Model ----
(***************************************************************************)
(* A model of the CompoWay/F driver (compowayf_driver.py) and of the       *)
(* polling applications built on it (HeatCycle_Monitor.py, test.py), and   *)
(* of the receiver of thermal.py.                                          *)
(*                                                                         *)
(* Text is a sequence of character codes, bytes are a sequence of numbers  *)
(* 0..255.  The module holds several specifications over one set of        *)
(* variables:                                                              *)
(*   SpecCodec  the pure frame functions _make_frame / _parse_response     *)
(*   SpecRx     one call of _read_one_response on a byte stream            *)
(*   SpecExch   one call of a read operation: clear, write, receive,       *)
(*              parse, decode                                              *)
(*   SpecDecode a read operation from the return of the receive on         *)
(*   SpecApp    the polling thread and the shutdown handler                *)
(*   SpecPower  the integrations _compute_average_power_w and              *)
(*              _integrate_power_wh applied to sample series               *)
(*   SpecStable _evaluate_stability applied to power/energy series         *)
(*   SpecSeries the polling thread, the clock, drain_results and the       *)
(*              shutdown handler                                           *)
(*   SpecBacklog drain_results of HeatCycle_Monitor.py on a queue that     *)
(*              holds the tuples of several cycles                         *)
(*   SpecThermal one call of recv_one_frame (thermal.py) on a byte stream  *)
(*   SpecRxLive SpecRx with a running thread and an advancing clock        *)
(*   SpecStop   the polling thread, drain_results and the shutdown         *)
(*              handler, with a polling thread that keeps running          *)
(*   SpecStart  App.__init__ from the opening of the port, then the        *)
(*              session                                                    *)
(***************************************************************************)
EXTENDS Integers, Sequences, FiniteSets, TLC

VARIABLES
    op,         \* codec: which function was called last
    node,       \* codec: _make_frame argument node_hex
    sub,        \* codec: _make_frame argument sub_hex
    sid,        \* codec: _make_frame argument sid_ascii
    cmd,        \* codec: _make_frame argument cmd_hex
    frame,      \* codec: outcome of _make_frame
    raw,        \* codec: _parse_response argument resp
    parsed,     \* codec: the dict returned by _parse_response
    now,        \* time.perf_counter(), in ticks
    wire,       \* bytes the device has sent that have not reached the port yet
    inbuf,      \* the serial port's input buffer: bytes received, not yet read
    arrived,    \* history: the bytes that reached the port since the receive / exchange began
    rxpc,       \* _read_one_response: where the call stands
    end_time,   \* _read_one_response: end_time
    buf,        \* _read_one_response: buf
    seen_etx,   \* _read_one_response: seen_etx
    rxRead,     \* history: the bytes ser.read gave to this call, in order
    rxResult,   \* _read_one_response: the bytes returned
    xpc,        \* read operation: where the call stands
    rop,        \* read operation: which one ("pv", "sv", "cur")
    reply,      \* the bytes the device sends in answer to the request written
    written,    \* history: the bytes written to the port
    staleAtClear,   \* history: what the input buffer held when it was cleared
    cmd_hex_sent,   \* _send_and_get: cmd_hex_sent
    outcome,    \* read operation: what the call gave, a dict or an exception
    events,     \* history: the port and parser calls made, in order
    variant,    \* application: "monitor" (HeatCycle_Monitor.py) or "test" (test.py)
    wpc,        \* poll_worker: where the polling thread stands
    rd,         \* poll_worker: which read of the cycle is on (0: none)
    vals,       \* poll_worker: the readings of the cycle so far
    cycles,     \* history: polling cycles started
    io_lock,    \* self.io_lock: "free" or its holder
    stop_evt,   \* self.stop_evt
    result_q,   \* self.result_q
    pending,    \* history: requests written whose exchange has not ended
    portOpen,   \* self.cwf.ser.is_open
    cpc,        \* the GUI thread: in __init__, idle, where it stands in on_close, or exited
    c_op,       \* calculation: which function was called last
    times,      \* calculation: argument times
    values,     \* calculation: argument currents, or the power/energy values
    t_now,      \* calculation: argument now
    pts,        \* calculation: the integration points pts
    result,     \* calculation: the value returned or stored
    clock,      \* the wall clock dt.datetime.now() reads, in seconds
    stamp,      \* poll_worker: now, the time taken at the head of the cycle
    dpc,        \* drain_results: scheduled, running, or no longer scheduled
    temp_times,     \* self.temp_times
    temp_values,    \* self.temp_values
    times_current,  \* per system: series["times_current"] (self.current_times)
    currents,       \* per system: series["currents"] (self.currents)
    times_power,    \* per system: series["times_power"] (self.power_times)
    power_wh,       \* per system: series["power_wh"] (self.power_values)
    stable_avg,     \* per system: series["stable_avg"]
    inserted        \* history, per system: every current sample (t, i) inserted

codecVars == <<op, node, sub, sid, cmd, frame, raw, parsed>>
chanVars == <<now, wire, inbuf, arrived>>
rxVars == <<rxpc, end_time, buf, seen_etx, rxRead, rxResult>>
exchVars == <<xpc, rop, reply, written, staleAtClear, cmd_hex_sent, outcome, events>>
threadVars == <<variant, wpc, rd, vals, cycles, io_lock, stop_evt, result_q, pending, portOpen,
                cpc, stamp>>
calcVars == <<c_op, times, values, t_now, pts, result>>
seriesVars == <<clock, dpc, temp_times, temp_values, times_current, currents, times_power,
                power_wh, stable_avg, inserted>>
appVars == <<threadVars, calcVars, seriesVars>>
vars == <<codecVars, chanVars, rxVars, exchVars, appVars>>

----------------------------------------------------------------------------
(* Characters and bytes *)

STX == 2
ETX == 3

\* "0", the character str.zfill pads with
ChZero == 48
\* "+" and "-", the sign characters str.zfill keeps in front of the padding
ChPlus == 43
ChMinus == 45
\* U+FFFD, what bytes.decode(errors="replace") puts for an undecodable byte
ChReplacement == 65533

\* str.encode("ascii") and, on the bytes used here, bytes.decode() accept codes below this
AsciiLimit == 128
ByteMod == 256
ByteBits == 8

\* bound: longest session string tried (the code accepts exactly length 1)
MaxSidLen == 2
\* bound: longest free-form command string tried
MaxCmdLen == 2

StrUpTo(S, n) == UNION {[1..k -> S] : k \in 0..n}

RECURSIVE XorBits(_, _, _)
XorBits(a, b, n) ==
    IF n = 0 THEN 0
    ELSE (((a % 2) + (b % 2)) % 2) + (2 * XorBits(a \div 2, b \div 2, n - 1))

\* Python's a ^ b on byte values
Xor(a, b) == XorBits(a, b, ByteBits)

RECURSIVE XorFold(_, _)
XorFold(payload, x) ==
    IF payload = <<>> THEN x
    ELSE XorFold(Tail(payload), Xor(x, Head(payload)))

\* _bcc_ascii_hex: x = 0; for b in payload: x ^= b; bytes([x & 0xFF])
bcc_ascii_hex(payload) == <<XorFold(payload, 0) % ByteMod>>

\* str.zfill(width): pads on the left, but after a leading sign character
zfill(s, width) ==
    IF Len(s) >= width THEN s
    ELSE LET fill == [i \in 1..(width - Len(s)) |-> ChZero]
         IN IF Len(s) > 0 /\ s[1] \in {ChPlus, ChMinus}
            THEN <<s[1]>> \o fill \o Tail(s)
            ELSE fill \o s

AddrWidth == 2

z2(s) == zfill(s, AddrWidth)

IsAscii(s) == \A i \in 1..Len(s) : s[i] < AsciiLimit

----------------------------------------------------------------------------
(* _make_frame *)

Returned(v) == [exc |-> "none", val |-> v]
Raised(e) == [exc |-> e, val |-> <<>>]

\* _make_frame with the checksum taken over the body only, ETX left out
make_frame_bccBodyOnly(node_hex, sub_hex, sid_ascii, cmd_hex) ==
    LET n2 == z2(node_hex)
        s2 == z2(sub_hex)
        body == n2 \o s2 \o sid_ascii \o cmd_hex
        payload == body \o <<ETX>>
    IN IF Len(sid_ascii) # 1 THEN Raised("ValueError")
       ELSE IF ~IsAscii(body) THEN Raised("UnicodeEncodeError")
       ELSE Returned(<<STX>> \o payload \o bcc_ascii_hex(body))

\* _make_frame without the test of the session's length
make_frame_anySession(node_hex, sub_hex, sid_ascii, cmd_hex) ==
    LET n2 == z2(node_hex)
        s2 == z2(sub_hex)
        body == n2 \o s2 \o sid_ascii \o cmd_hex
        payload == body \o <<ETX>>
    IN IF ~IsAscii(body) THEN Raised("UnicodeEncodeError")
       ELSE Returned(<<STX>> \o payload \o bcc_ascii_hex(payload))

make_frame(node_hex, sub_hex, sid_ascii, cmd_hex) ==
    LET n2 == z2(node_hex)
        s2 == z2(sub_hex)
        body == n2 \o s2 \o sid_ascii \o cmd_hex
        payload == body \o <<ETX>>
    IN IF Len(sid_ascii) # 1 THEN Raised("ValueError")
       ELSE IF ~IsAscii(body) THEN Raised("UnicodeEncodeError")
       ELSE Returned(<<STX>> \o payload \o bcc_ascii_hex(payload))

----------------------------------------------------------------------------
(* _parse_response *)

MinRespLen == 13

\* bytes.decode(): strict UTF-8; on the model's bytes it fails exactly on ByteBad
DecodeFails(bs) == \E i \in 1..Len(bs) : bs[i] >= AsciiLimit

\* bytes.decode(errors="replace")
DecodeReplace(bs) ==
    [i \in 1..Len(bs) |-> IF bs[i] >= AsciiLimit THEN ChReplacement ELSE bs[i]]

\* resp[a:b] for 0 <= a <= b <= len(resp), in Python's 0-based half-open form
Slice(resp, a, b) == SubSeq(resp, a + 1, b)

\* _parse_response testing the checksum before the markers
parse_response_bccFirst(resp) ==
    LET n == Len(resp)
    IN IF n < MinRespLen
       THEN [ok |-> FALSE, err |-> "too short", raw |-> resp]
       ELSE IF bcc_ascii_hex(Slice(resp, 1, n - 1)) # Slice(resp, n - 1, n)
       THEN [ok |-> FALSE, err |-> "BCC mismatch", raw |-> resp]
       ELSE IF resp[1] # STX \/ resp[n - 1] # ETX
       THEN [ok |-> FALSE, err |-> "bad STX/ETX", raw |-> resp]
       ELSE [ok |-> TRUE,
             node |-> Slice(resp, 1, 3),
             sub |-> Slice(resp, 3, 5),
             end |-> Slice(resp, 5, 7),
             mres |-> Slice(resp, 7, 9),
             sres |-> Slice(resp, 9, 11),
             data_hex |-> DecodeReplace(Slice(resp, 11, n - 2)),
             raw |-> resp]

\* _parse_response without the checksum test
parse_response_noChecksum(resp) ==
    LET n == Len(resp)
    IN IF n < MinRespLen
       THEN [ok |-> FALSE, err |-> "too short", raw |-> resp]
       ELSE IF resp[1] # STX \/ resp[n - 1] # ETX
       THEN [ok |-> FALSE, err |-> "bad STX/ETX", raw |-> resp]
       ELSE IF DecodeFails(Slice(resp, 1, 11))
       THEN [ok |-> FALSE, err |-> "decode error", raw |-> resp]
       ELSE [ok |-> TRUE,
             node |-> Slice(resp, 1, 3),
             sub |-> Slice(resp, 3, 5),
             end |-> Slice(resp, 5, 7),
             mres |-> Slice(resp, 7, 9),
             sres |-> Slice(resp, 9, 11),
             data_hex |-> DecodeReplace(Slice(resp, 11, n - 2)),
             raw |-> resp]

parse_response(resp) ==
    LET n == Len(resp)
    IN IF n < MinRespLen
       THEN [ok |-> FALSE, err |-> "too short", raw |-> resp]
       ELSE IF resp[1] # STX \/ resp[n - 1] # ETX
       THEN [ok |-> FALSE, err |-> "bad STX/ETX", raw |-> resp]
       ELSE IF bcc_ascii_hex(Slice(resp, 1, n - 1)) # Slice(resp, n - 1, n)
       THEN [ok |-> FALSE, err |-> "BCC mismatch", raw |-> resp]
       ELSE IF DecodeFails(Slice(resp, 1, 11))
       THEN [ok |-> FALSE, err |-> "decode error", raw |-> resp]
       ELSE [ok |-> TRUE,
             node |-> Slice(resp, 1, 3),
             sub |-> Slice(resp, 3, 5),
             end |-> Slice(resp, 5, 7),
             mres |-> Slice(resp, 7, 9),
             sres |-> Slice(resp, 9, 11),
             data_hex |-> DecodeReplace(Slice(resp, 11, n - 2)),
             raw |-> resp]

\* the values of frame and parsed before any call
NotCalled == Raised("not called")
NotParsed == [ok |-> FALSE, err |-> "not called", raw |-> <<>>]

----------------------------------------------------------------------------
(* The inputs tried.  Characters: "0" 48, "1" 49, "7" 55, "F" 70, "Z" 90,  *)
(* "-" 45, U+00E9 233.  Bytes: the same below 128, and 128, a byte that is *)
(* invalid UTF-8 wherever it stands.                                       *)

\* the command strings of the three read operations
PV_CMD == <<48,49,48,49,56,48,48,48,48,48,48,48,48,48,48,49>>
SV_CMD == <<48,49,48,49,56,49,48,48,48,51,48,48,48,48,48,49>>
CUR_CMD == <<48,49,48,49,56,69,48,48,48,52,48,48,48,48,48,49>>

NodeInputs == StrUpTo({48, 49, 45, 233}, AddrWidth)
SubInputs == StrUpTo({48, 45, 233}, AddrWidth)
SidInputs == StrUpTo({48, 233}, MaxSidLen)
CmdInputs == StrUpTo({48, 70}, MaxCmdLen) \cup {PV_CMD, SV_CMD, CUR_CMD}

\* what a device sends: STX node(2) sub(2) end(2) mres(2) sres(2) data ETX BCC
Response(n2, s2, end, mres, sres, data) ==
    LET payload == n2 \o s2 \o end \o mres \o sres \o data \o <<ETX>>
    IN <<STX>> \o payload \o bcc_ascii_hex(payload)

EndCodes == {<<48, 48>>, <<48, 70>>}
DataInputs == {<<>>, <<48, 48, 49, 55>>, <<48, 48, 90, 90>>}

GoodResponses ==
    {Response(<<48, 49>>, <<48, 48>>, e, <<48, 49>>, <<48, 49>>, d) :
        e \in EndCodes, d \in DataInputs}

\* what a device may answer to a read request: nothing, or a response frame
\* (end code "00" or "0F", data "0017" or the non-hexadecimal "00ZZ")
DeviceReplies(o) ==
    {<<>>}
    \cup {Response(IF o = "cur" THEN <<48, 50>> ELSE <<48, 49>>, <<48, 48>>, e,
                   <<48, 49>>, <<48, 49>>, d) :
            e \in EndCodes, d \in {<<48, 48, 49, 55>>, <<48, 48, 90, 90>>}}

CorruptBytes == {STX, ETX, 48, 128}

Replace(bs, i, b) == [bs EXCEPT ![i] = b]

RawInputs ==
    GoodResponses
    \cup {Replace(r, i, b) : r \in GoodResponses, i \in 1..MinRespLen, b \in CorruptBytes}
    \cup {SubSeq(r, 1, k) : r \in GoodResponses, k \in 0..MinRespLen}
    \cup {r \o <<b>> : r \in GoodResponses, b \in CorruptBytes}

----------------------------------------------------------------------------
(* The serial channel and _read_one_response *)

\* bound: the receive deadline rx_deadline, in clock ticks
RxDeadline == 2
\* bound: longest byte stream a device sends in SpecRx
MaxWire == 5

\* self.ser.read(256)
ChunkSize == 256

Min(a, b) == IF a < b THEN a ELSE b

\* ser.read(n) with timeout=0: whatever is in the input buffer, at most n bytes
ReadBytes(n) == SubSeq(inbuf, 1, Min(n, Len(inbuf)))
ReadRest(n) == SubSeq(inbuf, Min(n, Len(inbuf)) + 1, Len(inbuf))

Contains(bs, b) == \E i \in 1..Len(bs) : bs[i] = b

ChanIdle == now = 0 /\ wire = <<>> /\ inbuf = <<>> /\ arrived = <<>>

RxIdle ==
    /\ rxpc = "idle" /\ end_time = 0 /\ buf = <<>> /\ seen_etx = FALSE
    /\ rxRead = <<>> /\ rxResult = <<>>

\* a read operation's result dict: value None, an int, or a float given in tenths
NoValue == [kind |-> "none", n |-> 0]
IntValue(n) == [kind |-> "int", n |-> n]
TenthsValue(n) == [kind |-> "tenths", n |-> n]
ResultDict(c, v) == [exc |-> "none", cmd_hex |-> c, value |-> v]
Escaped(e) == [exc |-> e, cmd_hex |-> <<>>, value |-> NoValue]

ExchIdle ==
    /\ xpc = "idle" /\ rop = "none" /\ reply = <<>> /\ written = <<>>
    /\ staleAtClear = <<>> /\ cmd_hex_sent = <<>>
    /\ outcome = Escaped("not called")
    /\ events = <<>>

\* None, where a number is expected
None == [n |-> 0, d |-> 0]

\* no calculation called
CalcIdle ==
    /\ c_op = "idle" /\ times = <<>> /\ values = <<>> /\ t_now = 0
    /\ pts = <<>> /\ result = None

\* the systems whose current is measured: POWER_SYSTEMS of test.py, the one
\* power regulator of HeatCycle_Monitor.py
Systems(v) ==
    IF v = "test" THEN {"system_a", "system_b"}
    ELSE IF v = "monitor" THEN {"g3pw"}
    ELSE {}

\* the series as __init__ leaves them
SeriesEmpty(v) ==
    /\ temp_times = <<>> /\ temp_values = <<>>
    /\ times_current = [s \in Systems(v) |-> <<>>]
    /\ currents = [s \in Systems(v) |-> <<>>]
    /\ times_power = [s \in Systems(v) |-> <<>>]
    /\ power_wh = [s \in Systems(v) |-> <<>>]
    /\ stable_avg = [s \in Systems(v) |-> None]
    /\ inserted = [s \in Systems(v) |-> <<>>]

\* no consumer
SeriesIdle == clock = 0 /\ dpc = "sched" /\ SeriesEmpty("none")

\* the application's threads not started
ThreadIdle ==
    /\ stamp = 0
    /\ variant = "none" /\ wpc = "none" /\ rd = 0 /\ vals = <<>> /\ cycles = 0
    /\ io_lock = "free" /\ stop_evt = FALSE /\ result_q = <<>> /\ pending = 0
    /\ portOpen = TRUE /\ cpc = "idle"

\* the application not started
AppIdle == CalcIdle /\ ThreadIdle /\ SeriesIdle

\* variables no step of the channel or of the receiver changes
rxFrame == <<codecVars, xpc, rop, reply, written, staleAtClear, cmd_hex_sent, outcome, appVars>>

\* the next byte sent by the device reaches the port; the channel is followed
\* as long as the running call can still read or clear it
Arrive ==
    /\ wire # <<>>
    /\ rxpc \in {"call", "wait", "acc", "bcc"} \/ xpc \in {"call", "reset", "write"}
    /\ wire' = Tail(wire)
    /\ inbuf' = Append(inbuf, Head(wire))
    /\ arrived' = Append(arrived, Head(wire))
    /\ UNCHANGED <<now, rxVars, rxFrame, events>>

\* the clock advances; past the deadline of the running receive it is not followed
Tick ==
    /\ rxpc \in {"wait", "acc"}
    /\ now < end_time
    /\ now' = now + 1
    /\ UNCHANGED <<wire, inbuf, arrived, rxVars, rxFrame, events>>

\* entry of _read_one_response(deadline_s): end_time and the empty buf
RxCall ==
    /\ rxpc = "call"
    /\ end_time' = now + RxDeadline
    /\ buf' = <<>>
    /\ seen_etx' = FALSE
    /\ rxRead' = <<>>
    /\ rxResult' = <<>>
    /\ rxpc' = "wait"
    /\ events' = Append(events, "rx")
    /\ UNCHANGED <<chanVars, rxFrame>>

\* the first loop with every byte read put into buf, STX or not
RxWaitStx_keepAll ==
    /\ rxpc = "wait"
    /\ now < end_time
    /\ LET b == ReadBytes(1)
       IN /\ inbuf' = ReadRest(1)
          /\ rxRead' = rxRead \o b
          /\ buf' = buf \o b
          /\ rxpc' = IF b # <<>> /\ b[1] = STX THEN "acc" ELSE "wait"
    /\ UNCHANGED <<now, wire, arrived, end_time, seen_etx, rxResult, rxFrame, events>>

\* one turn of the first loop: read(1); nothing or a byte other than STX is
\* dropped, STX goes into buf and ends the loop
RxWaitStx ==
    /\ rxpc = "wait"
    /\ now < end_time
    /\ LET b == ReadBytes(1)
       IN /\ inbuf' = ReadRest(1)
          /\ rxRead' = rxRead \o b
          /\ IF b # <<>> /\ b[1] = STX
             THEN buf' = buf \o b /\ rxpc' = "acc"
             ELSE UNCHANGED <<buf, rxpc>>
    /\ UNCHANGED <<now, wire, arrived, end_time, seen_etx, rxResult, rxFrame, events>>

\* the first loop ends on its condition (while ... else): return b""
RxWaitTimeout ==
    /\ rxpc = "wait"
    /\ now >= end_time
    /\ rxResult' = <<>>
    /\ rxpc' = "done"
    /\ UNCHANGED <<chanVars, end_time, buf, seen_etx, rxRead, rxFrame, events>>

\* one turn of the second loop: read(256); a chunk holding ETX ends the loop
\* after one more read(1)
RxAccumulate ==
    /\ rxpc = "acc"
    /\ now < end_time
    /\ LET chunk == ReadBytes(ChunkSize)
       IN /\ inbuf' = ReadRest(ChunkSize)
          /\ rxRead' = rxRead \o chunk
          /\ buf' = buf \o chunk
          /\ IF Contains(chunk, ETX)
             THEN seen_etx' = TRUE /\ rxpc' = "bcc"
             ELSE UNCHANGED <<seen_etx, rxpc>>
    /\ UNCHANGED <<now, wire, arrived, end_time, rxResult, rxFrame, events>>

\* bcc = self.ser.read(1) after the chunk holding ETX, then return bytes(buf)
RxReadBcc ==
    /\ rxpc = "bcc"
    /\ LET bcc == ReadBytes(1)
       IN /\ inbuf' = ReadRest(1)
          /\ rxRead' = rxRead \o bcc
          /\ buf' = buf \o bcc
          /\ rxResult' = buf \o bcc
    /\ rxpc' = "done"
    /\ UNCHANGED <<now, wire, arrived, end_time, seen_etx, rxFrame, events>>

\* the second loop ending on its condition and returning what buf holds
RxAccTimeout_returnPartial ==
    /\ rxpc = "acc"
    /\ now >= end_time
    /\ rxResult' = buf
    /\ rxpc' = "done"
    /\ UNCHANGED <<chanVars, end_time, buf, seen_etx, rxRead, rxFrame, events>>

\* the second loop ends on its condition with seen_etx false: return b""
RxAccTimeout ==
    /\ rxpc = "acc"
    /\ now >= end_time
    /\ rxResult' = IF seen_etx THEN buf ELSE <<>>
    /\ rxpc' = "done"
    /\ UNCHANGED <<chanVars, end_time, buf, seen_etx, rxRead, rxFrame, events>>

RxStep ==
    \/ RxCall
    \/ RxWaitStx
    \/ RxWaitTimeout
    \/ RxAccumulate
    \/ RxReadBcc
    \/ RxAccTimeout

----------------------------------------------------------------------------
(* SpecRx: one call of _read_one_response on a channel carrying any stream *)

WireInputs == StrUpTo({STX, ETX, 48}, MaxWire)

InitRx ==
    /\ op = "idle"
    /\ node = <<>> /\ sub = <<>> /\ sid = <<>> /\ cmd = <<>>
    /\ frame = NotCalled /\ raw = <<>> /\ parsed = NotParsed
    /\ now = 0 /\ inbuf = <<>> /\ arrived = <<>>
    /\ wire \in WireInputs
    /\ rxpc = "call" /\ end_time = 0 /\ buf = <<>> /\ seen_etx = FALSE
    /\ rxRead = <<>> /\ rxResult = <<>>
    /\ ExchIdle
    /\ AppIdle

NextRx == Arrive \/ Tick \/ RxStep

SpecRx == InitRx /\ [][NextRx]_vars

----------------------------------------------------------------------------
(* Claims about _read_one_response *)

FirstIdx(bs, b) == CHOOSE i \in 1..Len(bs) : bs[i] = b /\ \A j \in 1..(i - 1) : bs[j] # b

\* bs from its first b on; empty when bs holds no b
SuffixFrom(bs, b) == IF Contains(bs, b) THEN SubSeq(bs, FirstIdx(bs, b), Len(bs)) ELSE <<>>

RxComplete == rxpc = "done" /\ rxResult # <<>>

\* the place of the end marker in a returned frame
EtxAt == FirstIdx(rxResult, ETX)

\* C4: a non-empty result of _read_one_response holds the checksum byte that
\* follows the end marker, also when ETX was the last byte available when it
\* was read and the checksum (a byte the device did send: it is still on its
\* way, or waiting in the input buffer) comes later.
C4_CompleteHasChecksum ==
    (RxComplete /\ wire \o inbuf # <<>>) => Len(rxResult) > EtxAt

\* C5: when the bytes read hold more than the end marker (the chunk with ETX
\* held further bytes, or further bytes were waiting), the result ends with
\* the checksum right after ETX and holds no byte after it.
C5_NoTrailingByte ==
    (RxComplete /\ Len(rxResult) > EtxAt) => Len(rxResult) = EtxAt + 1

\* C6: when no STX was delivered before the deadline the result is empty, and
\* a non-empty result starts with STX and is what was read from the first STX
\* on: no byte read before it is in the result.
C6_StartsAtStx ==
    rxpc = "done" =>
        /\ ~Contains(rxRead, STX) => rxResult = <<>>
        /\ rxResult # <<>> => rxResult[1] = STX /\ rxResult = SuffixFrom(rxRead, STX)

C6_Witness == RxComplete /\ rxRead[1] # STX

\* C7: when STX was received and the deadline passes with no chunk holding ETX
\* read, the result is empty (the bytes accumulated are dropped), and the call,
\* once returned, reads the channel no more.
C7_TimeoutDropsPartial ==
    /\ [](( /\ rxpc = "done"
            /\ Contains(rxRead, STX)
            /\ ~Contains(Tail(SuffixFrom(rxRead, STX)), ETX) ) => rxResult = <<>>)
    /\ [][rxpc = "done" => (rxpc' = "done" /\ rxRead' = rxRead /\ rxResult' = rxResult)]_vars

C7_Witness ==
    /\ rxpc = "done" /\ Contains(rxRead, STX) /\ Len(SuffixFrom(rxRead, STX)) >= 2
    /\ ~Contains(rxRead, ETX) /\ rxResult = <<>>

----------------------------------------------------------------------------
(* The read operations: _send_and_get and the decoding of the value *)

HexDigits == {48, 49, 50, 51, 52, 53, 54, 55, 56, 57,
              65, 66, 67, 68, 69, 70, 97, 98, 99, 100, 101, 102}

HexDigitVal(c) ==
    IF c <= 57 THEN c - 48 ELSE IF c <= 70 THEN c - 55 ELSE c - 87

IsHex(s) == Len(s) > 0 /\ \A i \in 1..Len(s) : s[i] \in HexDigits

RECURSIVE HexVal(_)
HexVal(s) ==
    IF s = <<>> THEN 0
    ELSE 16 * HexVal(SubSeq(s, 1, Len(s) - 1)) + HexDigitVal(s[Len(s)])

\* data[:8] and data[-4:]
Head8(data) == SubSeq(data, 1, 8)
Tail4(data) == SubSeq(data, Len(data) - 3, Len(data))

Str00 == <<48, 48>>

\* (variant) the end code is not looked at
Undecodable_anyEndCode(r) == ~r.ok \/ Len(r.data_hex) < 4

\* the test every read operation makes before decoding
Undecodable(r) == ~r.ok \/ r.end # Str00 \/ Len(r.data_hex) < 4

\* (variant) the first 4 characters converted instead of the last 4
pv_value_firstFour(c, r) ==
    IF Undecodable(r) THEN ResultDict(c, NoValue)
    ELSE IF ~IsHex(SubSeq(r.data_hex, 1, 4)) THEN Escaped("ValueError")
    ELSE ResultDict(c, IntValue(HexVal(SubSeq(r.data_hex, 1, 4))))

\* read_e5cd_pv_decimal after _send_and_get: int(data[-4:], 16)
pv_value(c, r) ==
    IF Undecodable(r) THEN ResultDict(c, NoValue)
    ELSE IF ~IsHex(Tail4(r.data_hex)) THEN Escaped("ValueError")
    ELSE ResultDict(c, IntValue(HexVal(Tail4(r.data_hex))))

\* (variant) the trailing 4 characters whatever the leading 8 hold
sv_value_tailOnly(c, r) ==
    IF Undecodable(r) THEN ResultDict(c, NoValue)
    ELSE IF ~IsHex(Tail4(r.data_hex)) THEN Escaped("ValueError")
    ELSE ResultDict(c, IntValue(HexVal(Tail4(r.data_hex))))

\* read_e5cd_sv_decimal after _send_and_get: head if non-zero, else tail
sv_value(c, r) ==
    IF Undecodable(r) THEN ResultDict(c, NoValue)
    ELSE LET data == r.data_hex
             hasHead == Len(data) >= 8
         IN IF hasHead /\ ~IsHex(Head8(data)) THEN Escaped("ValueError")
            ELSE IF ~IsHex(Tail4(data)) THEN Escaped("ValueError")
            ELSE LET head_val == IF hasHead THEN HexVal(Head8(data)) ELSE 0
                     tail_val == HexVal(Tail4(data))
                 IN ResultDict(c, IntValue(IF head_val # 0 THEN head_val ELSE tail_val))

\* (variant) no fallback to the trailing field
cur_value_headOnly(c, r) ==
    IF Undecodable(r) THEN ResultDict(c, NoValue)
    ELSE LET data == r.data_hex
             hasHead == Len(data) >= 8
         IN IF hasHead /\ ~IsHex(Head8(data)) THEN Escaped("ValueError")
            ELSE IF ~IsHex(Tail4(data)) THEN Escaped("ValueError")
            ELSE ResultDict(c, TenthsValue(IF hasHead THEN HexVal(Head8(data)) ELSE 0))

\* read_g3pw_current_amps after _send_and_get: head / 10.0, else tail / 10.0, else 0.0
cur_value(c, r) ==
    IF Undecodable(r) THEN ResultDict(c, NoValue)
    ELSE LET data == r.data_hex
             hasHead == Len(data) >= 8
         IN IF hasHead /\ ~IsHex(Head8(data)) THEN Escaped("ValueError")
            ELSE IF ~IsHex(Tail4(data)) THEN Escaped("ValueError")
            ELSE LET head_u32 == IF hasHead THEN HexVal(Head8(data)) ELSE 0
                     tail_u16 == HexVal(Tail4(data))
                 IN ResultDict(c, TenthsValue(IF head_u32 # 0 THEN head_u32
                                             ELSE IF tail_u16 # 0 THEN tail_u16 ELSE 0))

ReadOps == {"pv", "sv", "cur"}

CmdOf(o) == IF o = "pv" THEN PV_CMD ELSE IF o = "sv" THEN SV_CMD ELSE CUR_CMD

ValueOf(o, c, r) ==
    IF o = "pv" THEN pv_value(c, r)
    ELSE IF o = "sv" THEN sv_value(c, r)
    ELSE cur_value(c, r)

\* self.ser.reset_input_buffer() left out
reset_input_buffer_skipped(b) == b

\* self.ser.reset_input_buffer(): what the input buffer holds afterwards
reset_input_buffer(b) == <<>>

\* entry of a read operation: cmd, sub="00", and _send_and_get's _make_frame,
\* whose exception ends the call
ReadOpCall ==
    /\ xpc = "call"
    /\ cmd' = CmdOf(rop)
    /\ sub' = Str00
    /\ frame' = make_frame(node, Str00, sid, CmdOf(rop))
    /\ IF frame'.exc = "none"
       THEN xpc' = "reset" /\ UNCHANGED outcome
       ELSE xpc' = "done" /\ outcome' = Escaped(frame'.exc)
    /\ UNCHANGED <<op, node, sid, raw, parsed, chanVars, rxVars,
                   rop, reply, written, staleAtClear, cmd_hex_sent, events, appVars>>

\* _send_and_get: self.ser.reset_input_buffer()
SgReset ==
    /\ xpc = "reset"
    /\ staleAtClear' = inbuf
    /\ inbuf' = reset_input_buffer(inbuf)
    /\ arrived' = <<>>
    /\ xpc' = "write"
    /\ events' = Append(events, "clear")
    /\ UNCHANGED <<codecVars, now, wire, rxVars, rop, reply, written, cmd_hex_sent, outcome,
                   appVars>>

\* _send_and_get: self.ser.write(frame); self.ser.flush(), and the call of
\* _read_one_response.  The device answers the request with one of its replies,
\* which sets out behind whatever it had sent before.
SgWrite ==
    /\ xpc = "write"
    /\ written' = written \o frame.val
    /\ \E r \in DeviceReplies(rop) :
          /\ reply' = r
          /\ wire' = wire \o r
    /\ xpc' = "rx"
    /\ rxpc' = "call"
    /\ events' = Append(events, "write")
    /\ UNCHANGED <<codecVars, now, inbuf, arrived, end_time, buf, seen_etx, rxRead, rxResult,
                   rop, staleAtClear, cmd_hex_sent, outcome, appVars>>

\* (variant) an empty receive makes the call clear and send once more
SgParse_resendOnTimeout ==
    /\ xpc = "rx"
    /\ rxpc = "done"
    /\ IF rxResult = <<>> /\ Len(written) <= Len(frame.val)
         THEN /\ xpc' = "reset"
              /\ UNCHANGED <<parsed, cmd_hex_sent, events>>
         ELSE /\ parsed' = IF rxResult # <<>> THEN parse_response(rxResult)
                           ELSE [ok |-> FALSE, err |-> "timeout", raw |-> <<>>]
              /\ cmd_hex_sent' = z2(node) \o z2(sub) \o sid \o cmd
              /\ events' = IF rxResult # <<>> THEN Append(events, "parse") ELSE events
              /\ xpc' = "decode"
    /\ UNCHANGED <<op, node, sub, sid, cmd, frame, raw, chanVars, rxVars,
                   rop, reply, written, staleAtClear, outcome, appVars>>

\* (variant) cmd_hex_sent put together from the arguments as given, unpadded
SgParse_unpaddedNode ==
    /\ xpc = "rx"
    /\ rxpc = "done"
    /\ parsed' = IF rxResult # <<>> THEN parse_response(rxResult)
                 ELSE [ok |-> FALSE, err |-> "timeout", raw |-> <<>>]
    /\ cmd_hex_sent' = node \o sub \o sid \o cmd
    /\ events' = IF rxResult # <<>> THEN Append(events, "parse") ELSE events
    /\ xpc' = "decode"
    /\ UNCHANGED <<op, node, sub, sid, cmd, frame, raw, chanVars, rxVars,
                   rop, reply, written, staleAtClear, outcome, appVars>>

\* _send_and_get after the receive: parse (or the timeout dict), cmd_hex_sent, return
SgParse ==
    /\ xpc = "rx"
    /\ rxpc = "done"
    /\ parsed' = IF rxResult # <<>> THEN parse_response(rxResult)
                 ELSE [ok |-> FALSE, err |-> "timeout", raw |-> <<>>]
    /\ cmd_hex_sent' = z2(node) \o z2(sub) \o sid \o cmd
    /\ events' = IF rxResult # <<>> THEN Append(events, "parse") ELSE events
    /\ xpc' = "decode"
    /\ UNCHANGED <<op, node, sub, sid, cmd, frame, raw, chanVars, rxVars,
                   rop, reply, written, staleAtClear, outcome, appVars>>

\* the read operation after _send_and_get: the value, and the dict returned
RopDecode ==
    /\ xpc = "decode"
    /\ outcome' = ValueOf(rop, cmd_hex_sent, parsed)
    /\ xpc' = "done"
    /\ UNCHANGED <<codecVars, chanVars, rxVars,
                   rop, reply, written, staleAtClear, cmd_hex_sent, events, appVars>>

ExchStep == ReadOpCall \/ SgReset \/ SgWrite \/ SgParse \/ RopDecode

----------------------------------------------------------------------------
(* SpecExch: one read operation on a channel as an earlier exchange left it *)

\* the reply to an earlier request of the polling cycle, value 0x0011
PrevReply == Response(<<48, 49>>, Str00, Str00, <<48, 49>>, <<48, 49>>, <<48, 48, 49, 49>>)

\* the channel at the call: fresh, or with the earlier reply partly in the
\* input buffer and partly still on its way (the earlier exchange timed out)
Leftovers ==
    {<<SubSeq(PrevReply, 1, k), SubSeq(PrevReply, k + 1, Len(PrevReply))>> :
        k \in 0..Len(PrevReply)}
    \cup {<<<<>>, <<>>>>}

SidArgs == StrUpTo({48}, MaxSidLen)

NodeOf(o) == IF o = "cur" THEN <<48, 50>> ELSE <<48, 49>>

\* the node argument: the operation's default, and on a fresh channel also
\* the one-character "1"
NodeArgs(o, fresh) == IF fresh THEN {NodeOf(o), <<49>>} ELSE {NodeOf(o)}

InitExch ==
    /\ op = "idle"
    /\ rop \in ReadOps
    /\ sid \in SidArgs
    /\ sub = <<>> /\ cmd = <<>>
    /\ frame = NotCalled /\ raw = <<>> /\ parsed = NotParsed
    /\ now = 0 /\ arrived = <<>>
    /\ \E l \in Leftovers : inbuf = l[1] /\ wire = l[2]
    /\ node \in NodeArgs(rop, inbuf \o wire = <<>>)
    /\ RxIdle
    /\ xpc = "call" /\ reply = <<>> /\ written = <<>>
    /\ staleAtClear = <<>> /\ cmd_hex_sent = <<>>
    /\ outcome = Escaped("not called")
    /\ events = <<>>
    /\ AppIdle

NextExch == Arrive \/ Tick \/ RxStep \/ ExchStep

SpecExch == InitExch /\ [][NextExch]_vars

----------------------------------------------------------------------------
(* Claims about the read operations *)

ReadOpDone == xpc = "done"

GaveValue == ReadOpDone /\ outcome.exc = "none" /\ outcome.value.kind # "none"

IsPrefix(a, b) == Len(a) <= Len(b) /\ SubSeq(b, 1, Len(a)) = a

\* C3: whatever the device returns (a frame with valid markers and checksum
\* whose data is not hexadecimal included), a read operation called with a
\* one-character session returns normally, with value None or a number: no
\* error escapes it.
C3_ReadOpsNeverRaise == ReadOpDone /\ Len(sid) = 1 => outcome.exc = "none"

\* C8 (as stated): the value a read operation returns is decoded from the
\* device's response to that same request, never from a late response to an
\* earlier request.
C8_ValueFromOwnReply == GaveValue => parsed.raw = reply

\* C8 (amended): the value a read operation returns is decoded only from bytes
\* that reached the input buffer after that operation cleared it: what the call
\* reads is, byte for byte, what arrived since its clear, so bytes of an earlier
\* response received before the clear are never returned as the later request's
\* result.  (An earlier response arriving after the clear can be.)
C8_ResultFromBytesAfterClear ==
    xpc \in {"write", "rx", "decode", "done"} =>
        /\ IsPrefix(rxRead, arrived)
        /\ GaveValue => parsed.raw = SuffixFrom(rxRead, STX)

C8_Witness == GaveValue /\ staleAtClear # <<>> /\ parsed.raw = reply

OneExchange == <<"clear", "write", "rx", "parse">>

\* C11: a read operation makes exactly one exchange, in the order clear the
\* input buffer, write one request frame, run the receiver once, parse at most
\* once (not at all after a timeout); once it has returned, whatever the
\* outcome, nothing more is cleared, written, read or parsed.
C11_OneExchangeInOrder ==
    /\ [](/\ IsPrefix(events, OneExchange)
          /\ written \in {<<>>, frame.val}
          /\ (ReadOpDone /\ frame.exc = "none") =>
                /\ Len(events) >= 3
                /\ written = frame.val
                /\ (Len(events) = 4 <=> rxResult # <<>>))
    /\ [][ReadOpDone => UNCHANGED <<events, written, rxRead, xpc, rxpc>>]_vars

\* a call that timed out has returned, having cleared, written and received once
C11_Witness ==
    /\ ReadOpDone /\ parsed.err = "timeout" /\ outcome.exc = "none"
    /\ events = <<"clear", "write", "rx">> /\ written = frame.val /\ reply # <<>>

\* C16: with a session that is empty or longer than one character
\* _make_frame raises instead of returning a frame, and the call ends there:
\* _send_and_get has not cleared the input buffer and has written nothing.
C16_BadSessionNoTraffic ==
    (Len(sid) # 1 /\ xpc # "call") =>
        /\ frame = Raised("ValueError")
        /\ ReadOpDone /\ outcome.exc = "ValueError"
        /\ events = <<>> /\ written = <<>> /\ staleAtClear = <<>>
        /\ rxpc = "idle"

\* the call has ended on the two-character session, the bytes an earlier
\* exchange left in the input buffer still there
C16_Witness ==
    /\ ReadOpDone /\ sid = <<48, 48>> /\ frame.exc = "ValueError"
    /\ inbuf # <<>> /\ written = <<>>

\* node left-padded with "0" to two characters
PaddedNode == [i \in 1..(AddrWidth - Len(node)) |-> ChZero] \o node

\* C17: a read operation gives back, next to the value, the command string
\* sent: padded node + padded sub ("00") + session + command, which is also
\* what stands between STX and ETX in the frame written to the port; so it is
\* after a timeout or a rejected response as well as after a good one.
C17_CommandStringReturned ==
    (xpc \in {"decode", "done"} /\ frame.exc = "none") =>
        /\ cmd_hex_sent = PaddedNode \o <<ChZero, ChZero>> \o sid \o CmdOf(rop)
        /\ Len(written) = Len(cmd_hex_sent) + 3
        /\ written[1] = STX
        /\ SubSeq(written, 2, Len(written) - 2) = cmd_hex_sent
        /\ written[Len(written) - 1] = ETX
        /\ (ReadOpDone /\ outcome.exc = "none") => outcome.cmd_hex = cmd_hex_sent

\* the PV read of node "1" timed out and gave back "01000" + command
C17_Witness ==
    /\ ReadOpDone /\ rop = "pv" /\ node = <<49>> /\ parsed.err = "timeout"
    /\ outcome = ResultDict(<<48, 49, 48, 48, 48>> \o PV_CMD, NoValue)

----------------------------------------------------------------------------
(* SpecDecode: a read operation from the return of _read_one_response on,   *)
(* for the byte strings the receiver can return: nothing, a response with   *)
(* one of the payloads below, or such a response damaged.                   *)

Zeros(n) == [i \in 1..n |-> ChZero]

\* data payloads: "", "17", "0017", "00ZZ", "FFFF", "00000017", "ZZ000017",
\* "000000000017", "0000000000000017", "0001000000000017", "0000001700000000"
\* and sixteen "0"
Payloads ==
    {<<>>, <<49, 55>>, <<48, 48, 49, 55>>, <<48, 48, 90, 90>>, <<70, 70, 70, 70>>,
     Zeros(4) \o <<48, 48, 49, 55>>,
     <<90, 90, 48, 48, 48, 48, 49, 55>>,
     Zeros(8) \o <<48, 48, 49, 55>>,
     Zeros(12) \o <<48, 48, 49, 55>>,
     <<48, 48, 48, 49>> \o Zeros(8) \o <<48, 48, 49, 55>>,
     Zeros(4) \o <<48, 48, 49, 55>> \o Zeros(8),
     Zeros(16)}

ResponsesTo(o) ==
    {Response(NodeOf(o), Str00, e, <<48, 49>>, <<48, 49>>, d) : e \in EndCodes, d \in Payloads}

\* what _read_one_response can have returned: nothing; a response; a response
\* without its checksum byte, with a byte behind it, or with a byte altered
ReceiveResults(o) ==
    {<<>>}
    \cup ResponsesTo(o)
    \cup {SubSeq(r, 1, Len(r) - 1) : r \in ResponsesTo(o)}
    \cup {r \o <<STX>> : r \in ResponsesTo(o)}
    \cup {Replace(r, 6, 49) : r \in ResponsesTo(o)}

InitDecode ==
    /\ op = "idle"
    /\ rop \in ReadOps
    /\ node = NodeOf(rop) /\ sub = Str00 /\ sid = <<ChZero>> /\ cmd = CmdOf(rop)
    /\ frame = make_frame(node, sub, sid, cmd)
    /\ raw = <<>> /\ parsed = NotParsed
    /\ now = 0 /\ wire = <<>> /\ inbuf = <<>>
    /\ rxResult \in ReceiveResults(rop)
    /\ arrived = rxResult /\ rxRead = rxResult /\ buf = rxResult /\ reply = rxResult
    /\ seen_etx = (rxResult # <<>>)
    /\ rxpc = "done" /\ end_time = RxDeadline
    /\ xpc = "rx" /\ written = frame.val /\ staleAtClear = <<>>
    /\ cmd_hex_sent = <<>>
    /\ outcome = Escaped("not called")
    /\ events = <<"clear", "write", "rx">>
    /\ AppIdle

NextDecode == SgParse \/ RopDecode

SpecDecode == InitDecode /\ [][NextDecode]_vars

----------------------------------------------------------------------------
(* SpecCodec: the frame functions applied to the inputs above *)

\* the arguments of one pending call: of _make_frame, or of _parse_response
InitCodec ==
    /\ frame = NotCalled
    /\ parsed = NotParsed
    /\ ChanIdle
    /\ RxIdle
    /\ ExchIdle
    /\ AppIdle
    /\ \/ /\ op = "call_make"
          /\ node \in NodeInputs /\ sub \in SubInputs
          /\ sid \in SidInputs /\ cmd \in CmdInputs
          /\ raw = <<>>
       \/ /\ op = "call_parse"
          /\ raw \in RawInputs
          /\ node = <<>> /\ sub = <<>> /\ sid = <<>> /\ cmd = <<>>

\* the call _make_frame(node_hex, sub_hex, sid_ascii, cmd_hex)
DoMakeFrame ==
    /\ op = "call_make"
    /\ op' = "make"
    /\ frame' = make_frame(node, sub, sid, cmd)
    /\ UNCHANGED <<node, sub, sid, cmd, raw, parsed, chanVars, rxVars, exchVars, appVars>>

\* the call _parse_response(resp)
DoParse ==
    /\ op = "call_parse"
    /\ op' = "parse"
    /\ parsed' = parse_response(raw)
    /\ UNCHANGED <<node, sub, sid, cmd, raw, frame, chanVars, rxVars, exchVars, appVars>>

\* bytes put in place of a byte of a frame
AlterBytes == {STX, ETX, 48, 49}

\* _parse_response applied to the frame _make_frame returned
DoRoundTrip ==
    /\ op = "make"
    /\ frame.exc = "none"
    /\ op' = "roundtrip"
    /\ raw' = frame.val
    /\ parsed' = parse_response(frame.val)
    /\ UNCHANGED <<node, sub, sid, cmd, frame, chanVars, rxVars, exchVars, appVars>>

\* _parse_response applied to that frame with one byte replaced by another
DoParseAltered ==
    /\ op = "make"
    /\ frame.exc = "none"
    /\ op' = "altered"
    /\ \E i \in 1..Len(frame.val), b \in AlterBytes :
          /\ b # frame.val[i]
          /\ raw' = Replace(frame.val, i, b)
          /\ parsed' = parse_response(Replace(frame.val, i, b))
    /\ UNCHANGED <<node, sub, sid, cmd, frame, chanVars, rxVars, exchVars, appVars>>

NextCodec == DoMakeFrame \/ DoParse \/ DoRoundTrip \/ DoParseAltered

SpecCodec == InitCodec /\ [][NextCodec]_vars

----------------------------------------------------------------------------
(* Claims about the frame functions *)

Bit(b, k) == (b \div (2 ^ k)) % 2

RECURSIVE BitCount(_, _)
BitCount(bs, k) == IF bs = <<>> THEN 0 ELSE Bit(Head(bs), k) + BitCount(Tail(bs), k)

RECURSIVE ParityFrom(_, _)
ParityFrom(bs, k) ==
    IF k = ByteBits THEN 0
    ELSE (BitCount(bs, k) % 2) * (2 ^ k) + ParityFrom(bs, k + 1)

\* the XOR of the bytes of bs, bit by bit: bit k is the parity of the bytes having bit k
XorOfAll(bs) == ParityFrom(bs, 0)

LeftPad(s) == [i \in 1..(AddrWidth - Len(s)) |-> ChZero] \o s

FrameAsClaimed ==
    LET covered == LeftPad(node) \o LeftPad(sub) \o sid \o cmd \o <<ETX>>
    IN frame = Returned(<<STX>> \o covered \o <<XorOfAll(covered)>>)

NoSign(s) == s = <<>> \/ s[1] \notin {ChPlus, ChMinus}

\* C1 (as stated): for every node and sub of at most two characters, every
\* one-character session and every ASCII command, _make_frame returns STX,
\* node and sub left-padded with "0" to two characters, session, command, ETX
\* and one checksum byte, the XOR of the bytes from node through ETX.
C1_MakeFrameAnyAddress ==
    (op = "make" /\ Len(node) <= AddrWidth /\ Len(sub) <= AddrWidth
        /\ Len(sid) = 1 /\ IsAscii(cmd))
    => FrameAsClaimed

\* C1 (amended): the same for ASCII node, sub and session where neither node
\* nor sub begins with a sign character "+" or "-".
C1_MakeFrameLayout ==
    (op = "make" /\ Len(node) <= AddrWidth /\ Len(sub) <= AddrWidth
        /\ Len(sid) = 1 /\ IsAscii(cmd)
        /\ IsAscii(node \o sub \o sid) /\ NoSign(node) /\ NoSign(sub))
    => FrameAsClaimed

C1_Witness ==
    /\ op = "make" /\ node = <<49>> /\ sub = <<>> /\ sid = <<48>> /\ cmd = PV_CMD
    /\ frame.exc = "none" /\ Len(frame.val) = 24

ParseConditions(r) ==
    /\ Len(r) >= MinRespLen
    /\ r[1] = STX
    /\ r[Len(r) - 1] = ETX
    /\ XorOfAll(SubSeq(r, 2, Len(r) - 1)) = r[Len(r)]

FirstFailure(r) ==
    IF Len(r) < MinRespLen THEN "too short"
    ELSE IF r[1] # STX \/ r[Len(r) - 1] # ETX THEN "bad STX/ETX"
    ELSE "BCC mismatch"

\* C2: _parse_response returns ok=True only for an input of at least 13 bytes
\* with STX first, ETX second to last and the XOR of raw[1:-1] last; any other
\* input gives ok=False with the one error of the first failing test (too
\* short, bad markers, checksum mismatch), the raw bytes unchanged and no
\* node/sub/end/data field.
C2_ParseValidation ==
    op = "parse" =>
        /\ parsed.ok => ParseConditions(raw)
        /\ ~ParseConditions(raw) =>
              parsed = [ok |-> FALSE, err |-> FirstFailure(raw), raw |-> raw]

C2_Witness ==
    /\ op = "parse" /\ Len(raw) >= MinRespLen /\ raw[1] = STX
    /\ raw[Len(raw) - 1] = ETX /\ parsed.ok = FALSE /\ parsed.err = "BCC mismatch"

IsDigits(s) == \A i \in 1..Len(s) : s[i] \in 48..57

\* valid arguments: one-character session, node and sub of at most two digits,
\* a command of hex digits
ValidArgs ==
    /\ Len(sid) = 1 /\ IsAscii(sid)
    /\ Len(node) <= AddrWidth /\ IsDigits(node)
    /\ Len(sub) <= AddrWidth /\ IsDigits(sub)
    /\ \A i \in 1..Len(cmd) : cmd[i] \in HexDigits

\* what follows the sub field in the parse of a frame
AfterSub(p) == p.end \o p.mres \o p.sres \o p.data_hex

\* C14 (as stated): for all valid arguments, _parse_response of the frame
\* _make_frame returns succeeds and gives back the original node, sub, session
\* and command (the two last as the characters behind the sub field) and the
\* end marker.
C14_RoundTrip ==
    (op = "roundtrip" /\ ValidArgs) =>
        /\ parsed.ok
        /\ parsed.node = node /\ parsed.sub = sub
        /\ AfterSub(parsed) = sid \o cmd
        /\ raw[Len(raw) - 1] = ETX

\* C14 (amended): for valid arguments with a command of at least 5 characters,
\* _parse_response of the frame succeeds; its node and sub fields are the
\* arguments left-padded with "0" to two characters, its end, mres, sres and
\* data fields together spell session + command, and ETX stands second to
\* last.  With a shorter command the frame has fewer than 13 bytes and
\* _parse_response fails with "too short".
C14_RoundTripPadded ==
    (op = "roundtrip" /\ ValidArgs) =>
        IF Len(cmd) >= 5
          THEN /\ parsed.ok
               /\ parsed.node = LeftPad(node) /\ parsed.sub = LeftPad(sub)
               /\ AfterSub(parsed) = sid \o cmd
               /\ raw[Len(raw) - 1] = ETX
               /\ parsed.raw = frame.val
          ELSE parsed = [ok |-> FALSE, err |-> "too short", raw |-> frame.val]

C14_Witness ==
    /\ op = "roundtrip" /\ node = <<49>> /\ sub = <<>> /\ sid = <<48>> /\ cmd = SV_CMD
    /\ parsed.ok /\ parsed.node = <<48, 49>> /\ parsed.sub = <<48, 48>>

\* the position at which the parsed bytes differ from the frame
AlteredAt == CHOOSE i \in 1..Len(raw) : raw[i] # frame.val[i]

ParseError(e) == parsed = [ok |-> FALSE, err |-> e, raw |-> raw]

\* C15 (as stated): for every frame _make_frame returns and every position
\* but the checksum's, replacing the byte there by a different one makes
\* _parse_response fail with the checksum-mismatch error.
C15_AnyByteChecksumMismatch ==
    (op = "altered" /\ ValidArgs /\ AlteredAt # Len(raw)) => ParseError("BCC mismatch")

\* C15 (amended): for a frame of at least 13 bytes, replacing one byte by a
\* different one makes _parse_response fail: with the marker error when the
\* byte is STX or ETX, with the checksum-mismatch error at every other
\* position.  A frame of fewer than 13 bytes fails with "too short" wherever
\* it is altered.
C15_AlteredFrameRejected ==
    (op = "altered" /\ ValidArgs) =>
        IF Len(raw) < MinRespLen THEN ParseError("too short")
        ELSE IF AlteredAt \in {1, Len(raw) - 1} THEN ParseError("bad STX/ETX")
        ELSE ParseError("BCC mismatch")

\* a command character of the PV request replaced
C15_Witness ==
    /\ op = "altered" /\ ValidArgs /\ cmd = PV_CMD /\ AlteredAt = 12
    /\ ParseError("BCC mismatch")

----------------------------------------------------------------------------
(* Claims about the value a read operation returns *)

\* the fields of a received response, by position
EndField(r) == SubSeq(r, 6, 7)
DataField(r) == SubSeq(r, 12, Len(r) - 2)

\* the response passes the three tests of _parse_response
ValidResponse(r) == r # <<>> /\ ParseConditions(r)

\* the digits "0".."9", "A".."F" in order of value
HexOrder == <<48, 49, 50, 51, 52, 53, 54, 55, 56, 57, 65, 66, 67, 68, 69, 70>>
IsUpperHex(s) == \A i \in 1..Len(s) : \E k \in 1..16 : HexOrder[k] = s[i]
Nibble(c) == (CHOOSE k \in 1..16 : HexOrder[k] = c) - 1

\* the unsigned number a string of hex digits writes: digit i weighs 16^(n-i)
RECURSIVE WeighedSum(_, _)
WeighedSum(s, i) ==
    IF i > Len(s) THEN 0 ELSE Nibble(s[i]) * 16 ^ (Len(s) - i) + WeighedSum(s, i + 1)
Unsigned(s) == WeighedSum(s, 1)

Leading8(d) == SubSeq(d, 1, 8)
Trailing4(d) == SubSeq(d, Len(d) - 3, Len(d))

\* C12: a read operation returns value None whenever the exchange timed out,
\* the response failed a validation test (too short, bad markers, checksum
\* mismatch), the end code is not "00", or the data payload has fewer than 4
\* characters.
C12_NoneOnFailure ==
    (ReadOpDone /\ (\/ rxResult = <<>>
                    \/ ~ParseConditions(rxResult)
                    \/ EndField(rxResult) # <<ChZero, ChZero>>
                    \/ Len(DataField(rxResult)) < 4))
    => outcome.exc = "none" /\ outcome.value = NoValue

\* a well-formed response with end code "0F" and a full payload gave None
C12_Witness ==
    /\ ReadOpDone /\ ValidResponse(rxResult)
    /\ EndField(rxResult) = <<48, 70>> /\ Len(DataField(rxResult)) = 8
    /\ outcome.value = NoValue

\* the receive gave a response that passes the tests, with end code "00" and a
\* payload d of at least 4 hex digits, and operation o has returned
Decoded(o, d) ==
    /\ ReadOpDone /\ rop = o
    /\ ValidResponse(rxResult)
    /\ EndField(rxResult) = <<ChZero, ChZero>>
    /\ d = DataField(rxResult)
    /\ Len(d) >= 4 /\ IsUpperHex(d)

Gives(v) == outcome = ResultDict(cmd_hex_sent, v)

Payload17 == Zeros(4) \o <<48, 48, 49, 55>>

\* C18: on a valid response with end code "00" and a hexadecimal payload of
\* at least 4 characters, read_e5cd_pv_decimal returns the unsigned value of
\* the last 4 hex characters, whatever stands before them; for command
\* "0101800000000001", node "01", session "0" and payload "00000017" it
\* returns 23.
C18_PvIsLastFourDigits ==
    \A d \in Payloads :
        Decoded("pv", d) =>
            /\ Gives(IntValue(Unsigned(Trailing4(d))))
            /\ d = Payload17 => Gives(IntValue(23))

C18_Witness ==
    /\ Decoded("pv", Payload17)
    /\ node = <<48, 49>> /\ sid = <<48>> /\ cmd = PV_CMD
    /\ outcome.value = IntValue(23)

\* the field read_e5cd_sv_decimal and read_g3pw_current_amps select: the
\* leading 8 digits when there are 8 and they are not zero, else the trailing 4
Selected(d) ==
    IF Len(d) >= 8 /\ Unsigned(Leading8(d)) # 0
      THEN Unsigned(Leading8(d))
      ELSE Unsigned(Trailing4(d))

\* C19: on a valid response with end code "00" (and a hexadecimal payload of
\* at least 4 characters), read_e5cd_sv_decimal returns the unsigned value of
\* the leading 8 hex characters when it is not zero, and otherwise the
\* unsigned value of the trailing 4, unscaled; sixteen "0" give 0.
C19_SvHeadElseTail ==
    \A d \in Payloads :
        Decoded("sv", d) =>
            /\ Gives(IntValue(Selected(d)))
            /\ d = Zeros(16) => Gives(IntValue(0))

\* the leading field 0x00010000 was taken, not the trailing 0x0017
C19_Witness ==
    /\ Decoded("sv", <<48, 48, 48, 49>> \o Zeros(8) \o <<48, 48, 49, 55>>)
    /\ outcome.value = IntValue(65536)

\* C20: on a valid response with end code "00" (and a hexadecimal payload of
\* at least 4 characters), read_g3pw_current_amps returns the leading 32-bit
\* field / 10 when that field is not zero, otherwise the trailing 16-bit field
\* / 10 when that is not zero, otherwise 0.0: in tenths of an ampere, exactly
\* the selected field.
C20_CurrentInTenths ==
    \A d \in Payloads :
        Decoded("cur", d) =>
            /\ Gives(TenthsValue(Selected(d)))
            /\ (Selected(d) = 0) => Gives(TenthsValue(0))

\* the leading field is zero and the trailing field 0x0017 gave 2.3 A
C20_Witness ==
    /\ Decoded("cur", Zeros(12) \o <<48, 48, 49, 55>>)
    /\ outcome.value = TenthsValue(23)

\* ---------------------------------------------------------------------------
\* The application: the polling thread (poll_worker) and the shutdown handler
\* (on_close), as they interleave.  A read operation is two steps here, its
\* request being written and its call ending; the exchange itself is the one
\* followed byte by byte under SpecExch.

\* bound: polling cycles followed
MaxCycles == 2

\* the reads of one cycle, in order: HeatCycle_Monitor.py reads one power
\* regulator, test.py one per entry of POWER_SYSTEMS
Cycle(v) ==
    IF v = "monitor" THEN <<"pv", "sv", "cur">> ELSE <<"pv", "sv", "cur", "cur">>

\* test.py wraps each current read in a try of its own
InnerTry(v, k) == v = "test" /\ Cycle(v)[k] = "cur"

\* a key the dict of currents does not hold
Missing == [kind |-> "missing", n |-> 0]

\* the readings a read operation can give: None or a value
Readings(r) ==
    IF r = "pv" THEN {NoValue, IntValue(23)}
    ELSE IF r = "sv" THEN {NoValue, IntValue(100)}
    ELSE {NoValue, TenthsValue(10), TenthsValue(30)}

\* what the cycle queues: the readings it has, the initial {"value": None} for
\* those it did not get to; test.py's dict of currents lacks the entries it did
\* not reach
Queued(v, vs) ==
    [k \in 1..Len(Cycle(v)) |->
        IF k <= Len(vs) THEN vs[k]
        ELSE IF v = "test" /\ Cycle(v)[k] = "cur" THEN Missing ELSE NoValue]

\* where the polling thread goes after read k ended and gave reading x
AfterRead(k, x) ==
    /\ vals' = Append(vals, x)
    /\ IF k < Len(Cycle(variant))
         THEN wpc' = "read" /\ rd' = k + 1
         ELSE wpc' = "unlock" /\ rd' = 0

\* (variant) no except clause: the exception ends the thread
AfterRaise_uncaught(k) == wpc' = "exited" /\ rd' = 0 /\ vals' = vals

\* where the polling thread goes when read k raised: test.py's current reads
\* carry on with {"value": None}, everything else leaves the lock region
AfterRaise(k) ==
    IF InnerTry(variant, k)
      THEN AfterRead(k, NoValue)
      ELSE wpc' = "unlock" /\ rd' = 0 /\ vals' = vals

appFrame == <<codecVars, chanVars, rxVars, exchVars, calcVars, seriesVars>>

\* (variant) while True: the stop signal is not looked at before a cycle
WorkerLoopTest_unconditional ==
    /\ wpc = "loop"
    /\ cycles < MaxCycles /\ wpc' = "lock" /\ cycles' = cycles + 1
    /\ vals' = <<>>
    /\ stamp' = clock
    /\ UNCHANGED <<appFrame, variant, rd, io_lock, stop_evt, result_q, pending, portOpen, cpc>>

\* while not self.stop_evt.is_set():
WorkerLoopTest ==
    /\ wpc = "loop"
    /\ IF stop_evt
         THEN wpc' = "exited" /\ cycles' = cycles
         ELSE cycles < MaxCycles /\ wpc' = "lock" /\ cycles' = cycles + 1
    /\ vals' = <<>>
    /\ stamp' = (IF stop_evt THEN stamp ELSE clock)
    /\ UNCHANGED <<appFrame, variant, rd, io_lock, stop_evt, result_q, pending, portOpen, cpc>>

\* with self.io_lock:
WorkerLock ==
    /\ wpc = "lock"
    /\ io_lock = "free"
    /\ io_lock' = "worker"
    /\ wpc' = "read" /\ rd' = 1
    /\ UNCHANGED <<appFrame, stamp, variant, vals, cycles, stop_evt, result_q, pending, portOpen, cpc>>

\* a read operation up to the request on the line; on a closed port the first
\* use of the port raises and nothing is written
WorkerReadBegin ==
    /\ wpc = "read"
    /\ IF portOpen
         THEN /\ pending' = pending + 1
              /\ wpc' = "xchg"
              /\ UNCHANGED <<rd, vals>>
         ELSE /\ pending' = pending
              /\ AfterRaise(rd)
    /\ UNCHANGED <<appFrame, stamp, variant, cycles, io_lock, stop_evt, result_q, portOpen, cpc>>

\* (variant) the lock is let go after each read
WorkerReadEnd_unlockBetween ==
    /\ wpc = "xchg"
    /\ pending' = pending - 1
    /\ \/ \E x \in Readings(Cycle(variant)[rd]) : AfterRead(rd, x)
       \/ AfterRaise(rd)
    /\ io_lock' = "free"
    /\ UNCHANGED <<appFrame, stamp, variant, cycles, stop_evt, result_q, portOpen, cpc>>

\* the read operation ends: a value, None, or an exception; a port closed
\* under the call makes its reads raise
WorkerReadEnd ==
    /\ wpc = "xchg"
    /\ pending' = pending - 1
    /\ \/ \E x \in Readings(Cycle(variant)[rd]) : AfterRead(rd, x)
       \/ AfterRaise(rd)
    /\ UNCHANGED <<appFrame, stamp, variant, cycles, io_lock, stop_evt, result_q, portOpen, cpc>>

\* the end of the with block, reached normally or by an exception
WorkerUnlock ==
    /\ wpc = "unlock"
    /\ io_lock' = "free"
    /\ wpc' = "put"
    /\ UNCHANGED <<appFrame, stamp, variant, rd, vals, cycles, stop_evt, result_q, pending, portOpen, cpc>>

\* self.result_q.put((now, pv, sv, ...))
WorkerPut ==
    /\ wpc = "put"
    /\ result_q' = Append(result_q, [now |-> stamp, vals |-> Queued(variant, vals)])
    /\ wpc' = "wait"
    /\ UNCHANGED <<appFrame, stamp, variant, rd, vals, cycles, io_lock, stop_evt, pending, portOpen, cpc>>

\* if self.stop_evt.wait(timeout=sleep_time): break
WorkerWait ==
    /\ wpc = "wait"
    /\ wpc' = IF stop_evt THEN "exited" ELSE "loop"
    /\ UNCHANGED <<appFrame, stamp, variant, rd, vals, cycles, io_lock, stop_evt, result_q, pending,
                   portOpen, cpc>>

WorkerStep ==
    \/ WorkerLoopTest \/ WorkerLock \/ WorkerReadBegin \/ WorkerReadEnd
    \/ WorkerUnlock \/ WorkerPut \/ WorkerWait

\* on_close: self.stop_evt.set()
CloseSetStop ==
    /\ cpc = "idle"
    /\ dpc # "run"
    /\ stop_evt' = TRUE
    /\ cpc' = "join"
    /\ UNCHANGED <<appFrame, stamp, variant, wpc, rd, vals, cycles, io_lock, result_q, pending, portOpen>>

\* there is no worker, it is not alive, or join returns because it exited
CloseJoined ==
    /\ cpc = "join"
    /\ wpc \in {"exited", "none"}
    /\ cpc' = "close"
    /\ UNCHANGED <<appFrame, stamp, variant, wpc, rd, vals, cycles, io_lock, stop_evt, result_q, pending,
                   portOpen>>

\* self.worker.join(timeout=1.5) returns with the worker still running
CloseJoinTimeout ==
    /\ cpc = "join"
    /\ wpc \notin {"exited", "none"}
    /\ cpc' = "close"
    /\ UNCHANGED <<appFrame, stamp, variant, wpc, rd, vals, cycles, io_lock, stop_evt, result_q, pending,
                   portOpen>>

\* self.cwf.close(), then self.destroy(): the window goes and with it the
\* timer that would have started drain_results again
CloseClose ==
    /\ cpc = "close"
    /\ portOpen' = FALSE
    /\ cpc' = "done"
    /\ dpc' = "off"
    /\ UNCHANGED <<codecVars, chanVars, rxVars, exchVars, calcVars, clock, temp_times, temp_values,
                   times_current, currents, times_power, power_wh, stable_avg, inserted>>
    /\ UNCHANGED <<stamp, variant, wpc, rd, vals, cycles, io_lock, stop_evt, result_q, pending>>

CloseStep == CloseSetStop \/ CloseJoined \/ CloseJoinTimeout \/ CloseClose

\* App.__init__ has opened the port and started the polling thread
InitApp ==
    /\ op = "idle" /\ node = <<>> /\ sub = <<>> /\ sid = <<>> /\ cmd = <<>>
    /\ frame = NotCalled /\ raw = <<>> /\ parsed = NotParsed
    /\ ChanIdle /\ RxIdle /\ ExchIdle /\ CalcIdle
    /\ variant \in {"monitor", "test"}
    /\ clock = 0 /\ stamp = 0 /\ dpc = "sched" /\ SeriesEmpty(variant)
    /\ wpc = "loop" /\ rd = 0 /\ vals = <<>> /\ cycles = 0
    /\ io_lock = "free" /\ stop_evt = FALSE /\ result_q = <<>> /\ pending = 0
    /\ portOpen = TRUE /\ cpc = "idle"

NextApp == WorkerStep \/ CloseStep

SpecApp == InitApp /\ [][NextApp]_vars

\* ---------------------------------------------------------------------------
\* Claims about the application

\* C9: on shutdown the serial channel is closed only after the polling thread
\* has exited: the port is never closed while the polling thread is in a read
\* cycle or can still start one.
InReadCycle == wpc \in {"lock", "read", "xchg"}
CanStartCycle == wpc \in {"loop", "wait"} /\ ~stop_evt
C9_ClosedOnlyAfterWorkerExit == (~portOpen) => ~(InReadCycle \/ CanStartCycle)

\* C10: at most one request is outstanding on the serial channel: the reads of
\* a cycle run one after the other inside one lock region held for the whole
\* group, and a request is written only when no earlier exchange is still
\* open.
C10_OneRequestOutstanding ==
    /\ pending <= 1
    /\ wpc \in {"read", "xchg"} => io_lock = "worker"
    /\ wpc = "read" => pending = 0
    /\ wpc = "xchg" <=> pending = 1

\* the last read of a cycle is under way, its request written, in the lock
\* region the first read was made in
C10_Witness ==
    /\ wpc = "xchg" /\ rd = Len(Cycle(variant)) /\ pending = 1
    /\ Len(vals) = rd - 1 /\ io_lock = "worker"

\* the cycle begun has not queued its tuple yet
CycleOpen == wpc \in {"lock", "read", "xchg", "unlock", "put"}

\* C13: whatever the reads of a cycle give (a value, None or an exception),
\* the polling thread queues exactly one tuple for the cycle, and it leaves the
\* loop only when the stop signal is set: after the tuple is queued with the
\* signal not set it is back at the head of the loop.
C13_OneTuplePerCycle ==
    /\ [](Len(result_q) = cycles - (IF CycleOpen THEN 1 ELSE 0))
    /\ [][(wpc # "exited" /\ wpc' = "exited") => stop_evt]_vars
    /\ [][(wpc = "wait" /\ wpc' # "wait") => wpc' = (IF stop_evt THEN "exited" ELSE "loop")]_vars

\* test.py: the first cycle lost its currents to an exception of the pv or sv
\* read, its tuple is queued and the second cycle is under way
C13_Witness ==
    /\ variant = "test" /\ cycles = 2 /\ wpc = "xchg" /\ ~stop_evt
    /\ Len(result_q) = 1 /\ result_q[1].vals[3] = Missing

\* ---------------------------------------------------------------------------
\* Numbers.  Timestamps are whole seconds; currents, powers and energies are
\* exact fractions [n, d] in lowest terms with d > 0, where the code has
\* floats: the rounding of float arithmetic is left out.

RECURSIVE Gcd(_, _)
Gcd(a, b) == IF b = 0 THEN a ELSE Gcd(b, a % b)

Abs(x) == IF x < 0 THEN 0 - x ELSE x

Q(n, d) ==
    LET g == Gcd(Abs(n), Abs(d))
        sgn == IF d < 0 THEN 0 - 1 ELSE 1
    IN [n |-> (sgn * n) \div g, d |-> (sgn * d) \div g]

QInt(k) == [n |-> k, d |-> 1]
QZero == QInt(0)
QOne == QInt(1)
QAdd(a, b) == Q(a.n * b.d + b.n * a.d, a.d * b.d)
QSub(a, b) == Q(a.n * b.d - b.n * a.d, a.d * b.d)
QMul(a, b) == Q(a.n * b.n, a.d * b.d)
QDiv(a, b) == Q(a.n * b.d, a.d * b.n)
QLt(a, b) == a.n * b.d < b.n * a.d
QLe(a, b) == a.n * b.d <= b.n * a.d
QMax(a, b) == IF QLt(a, b) THEN b ELSE a
QMin(a, b) == IF QLt(b, a) THEN b ELSE a
QHalf == Q(1, 2)

\* ---------------------------------------------------------------------------
\* The integration of the current over the window: _compute_average_power_w
\* (HeatCycle_Monitor.py) and _integrate_power_wh (test.py)

VOLTAGE_V == 200
WINDOW_SEC == 60
SecondsPerHour == 3600

\* an integration point (t, i)
Pt(t, i) == [t |-> t, i |-> i]

\* (variant) the earlier sample's current taken at the cutoff
Interpolated_previous(t0, i0, t1, i1, at) == i0

\* ratio = max(0.0, min(1.0, ratio)); i_interp = i0 + (i1 - i0) * ratio
Interpolated(t0, i0, t1, i1, at) ==
    LET ratio == QMax(QZero, QMin(QOne, Q(at - t0, t1 - t0)))
    IN QAdd(i0, QMul(QSub(i1, i0), ratio))

\* for idx in range(k - 1, n): if times[idx] >= cutoff: pts.append(...)
RECURSIVE InWindow(_, _, _, _)
InWindow(ts, cs, cutoff, k) ==
    IF k > Len(ts) THEN <<>>
    ELSE (IF ts[k] >= cutoff THEN <<Pt(ts[k], cs[k])>> ELSE <<>>)
         \o InWindow(ts, cs, cutoff, k + 1)

\* the trapezoid loop from index k on: the sum of 0.5 * (i0 + i1) * dt_seconds
\* over the consecutive points with t1 > t0
RECURSIVE CurrentSeconds(_, _)
CurrentSeconds(p, k) ==
    IF k >= Len(p) THEN QZero
    ELSE QAdd(IF p[k + 1].t <= p[k].t THEN QZero
              ELSE QMul(QMul(QHalf, QAdd(p[k].i, p[k + 1].i)), QInt(p[k + 1].t - p[k].t)),
              CurrentSeconds(p, k + 1))

\* while start_idx < n and times[start_idx] < cutoff: start_idx += 1
RECURSIVE SkipOlder(_, _, _)
SkipOlder(ts, cutoff, start_idx) ==
    IF start_idx < Len(ts) /\ ts[start_idx + 1] < cutoff
      THEN SkipOlder(ts, cutoff, start_idx + 1)
      ELSE start_idx

\* (variant) no point put at the cutoff
LeftBoundary_none(p, cutoff) == p

\* if pts[0][0] > cutoff: pts.insert(0, (cutoff, pts[0][1]))
LeftBoundary(p, cutoff) ==
    IF p[1].t > cutoff THEN <<Pt(cutoff, p[1].i)>> \o p ELSE p

\* (variant) no point put at now
RightBoundary_none(p, now_) == p

\* if pts[-1][0] < now: pts.append((now, pts[-1][1]))
RightBoundary(p, now_) ==
    IF p[Len(p)].t < now_ THEN Append(p, Pt(now_, p[Len(p)].i)) ELSE p

\* (variant) only the empty series gives 0.0 at once
EarlyZero_emptyOnly(ts, cs, now_, window_sec) ==
    ts = <<>> \/ cs = <<>> \/ window_sec <= 0

\* if not times or not currents or window_sec <= 0: return 0.0
\* if times[-1] < cutoff: return 0.0
EarlyZero(ts, cs, now_, window_sec) ==
    \/ ts = <<>> \/ cs = <<>> \/ window_sec <= 0
    \/ ts[Len(ts)] < now_ - window_sec

\* _compute_average_power_w: the list pts it integrates (empty where it
\* returns 0.0 before integrating)
average_pts(ts, cs, now_, window_sec) ==
    IF EarlyZero(ts, cs, now_, window_sec) THEN <<>>
    ELSE LET cutoff == now_ - window_sec
             n == Len(ts)
             start_idx == SkipOlder(ts, cutoff, 0)
             first ==
                IF start_idx = 0 THEN <<>>
                ELSE IF start_idx < n
                  THEN IF ts[start_idx + 1] > ts[start_idx]
                         THEN <<Pt(cutoff, Interpolated(ts[start_idx], cs[start_idx],
                                        ts[start_idx + 1], cs[start_idx + 1], cutoff))>>
                         ELSE <<>>
                  ELSE <<Pt(cutoff, cs[Len(cs)])>>
             p == first \o InWindow(ts, cs, cutoff, start_idx + 1)
         IN IF p = <<>> THEN <<>>
            ELSE RightBoundary(LeftBoundary(p, cutoff), now_)

\* _compute_average_power_w
compute_average_power_w(ts, cs, now_, voltage_v, window_sec) ==
    LET p == average_pts(ts, cs, now_, window_sec)
    IN IF p = <<>> THEN QZero
       ELSE QMul(QInt(voltage_v), QDiv(CurrentSeconds(p, 1), QInt(window_sec)))

\* idx = n - 1; while idx > 0 and times[idx - 1] >= t_start: idx -= 1
RECURSIVE BackToStart(_, _, _)
BackToStart(ts, t_start, idx) ==
    IF idx > 0 /\ ts[idx] >= t_start THEN BackToStart(ts, t_start, idx - 1) ELSE idx

\* _integrate_power_wh: the list pts it integrates
energy_pts(ts, cs, now_, window_sec) ==
    IF ts = <<>> \/ cs = <<>> THEN <<>>
    ELSE LET t_start == now_ - window_sec
             n == Len(ts)
             idx == BackToStart(ts, t_start, n - 1)
             first ==
                IF idx > 0 /\ ts[idx] <= t_start /\ t_start <= ts[idx + 1]
                  THEN IF ts[idx + 1] > ts[idx]
                         THEN <<Pt(t_start, Interpolated(ts[idx], cs[idx],
                                        ts[idx + 1], cs[idx + 1], t_start))>>
                         ELSE <<>>
                  ELSE <<>>
         IN first \o InWindow(ts, cs, t_start, idx + 1)

\* (variant) the energy left in watt-seconds
WattHours_wattSeconds(p, k, voltage_v) == QMul(QInt(voltage_v), CurrentSeconds(p, k))

\* the energy loop: power_w * (dt_seconds / 3600.0) summed, power_w being
\* voltage_v * 0.5 * (i0 + i1)
RECURSIVE WattHours(_, _, _)
WattHours(p, k, voltage_v) ==
    IF k >= Len(p) THEN QZero
    ELSE QAdd(IF p[k + 1].t <= p[k].t THEN QZero
              ELSE QMul(QMul(QInt(voltage_v), QMul(QHalf, QAdd(p[k].i, p[k + 1].i))),
                        Q(p[k + 1].t - p[k].t, SecondsPerHour)),
              WattHours(p, k + 1, voltage_v))

\* _integrate_power_wh
integrate_power_wh(ts, cs, now_, voltage_v, window_sec) ==
    LET p == energy_pts(ts, cs, now_, window_sec)
    IN IF Len(p) < 2 THEN QZero ELSE WattHours(p, 1, voltage_v)

\* ---------------------------------------------------------------------------
\* SpecPower: the two integrations applied to sample series

MaxSamples == 3

\* sample times, in seconds
SampleTimes == {0, 4, 10, 64}
\* the times of the call
CallTimes == {64, 130}
\* sampled currents, in amperes
Amps == {QInt(0), QInt(1), QInt(3)}

\* the sequences of length n over S in non-decreasing order
SortedSeqs(S, n) == {s \in [1..n -> S] : \A k \in 1..(n - 1) : s[k] <= s[k + 1]}

\* the variables no calculation changes
calcFrame == <<codecVars, chanVars, rxVars, exchVars, threadVars, seriesVars>>

InitPower ==
    /\ op = "idle" /\ node = <<>> /\ sub = <<>> /\ sid = <<>> /\ cmd = <<>>
    /\ frame = NotCalled /\ raw = <<>> /\ parsed = NotParsed
    /\ ChanIdle /\ RxIdle /\ ExchIdle /\ ThreadIdle /\ SeriesIdle
    /\ c_op = "call"
    /\ \E n \in 0..MaxSamples : times \in SortedSeqs(SampleTimes, n) /\ values \in [1..n -> Amps]
    /\ t_now \in {t \in CallTimes : times = <<>> \/ times[Len(times)] <= t}
    /\ pts = <<>> /\ result = None

\* _compute_average_power_w(times, currents, now, VOLTAGE_V, window_sec=60.0)
DoAveragePower ==
    /\ c_op = "call"
    /\ c_op' = "average"
    /\ pts' = average_pts(times, values, t_now, WINDOW_SEC)
    /\ result' = compute_average_power_w(times, values, t_now, VOLTAGE_V, WINDOW_SEC)
    /\ UNCHANGED <<times, values, t_now, calcFrame>>

\* _integrate_power_wh(times, currents, now, VOLTAGE_V, window_sec=60.0)
DoIntegrateWh ==
    /\ c_op = "call"
    /\ c_op' = "energy"
    /\ pts' = energy_pts(times, values, t_now, WINDOW_SEC)
    /\ result' = integrate_power_wh(times, values, t_now, VOLTAGE_V, WINDOW_SEC)
    /\ UNCHANGED <<times, values, t_now, calcFrame>>

NextPower == DoAveragePower \/ DoIntegrateWh

SpecPower == InitPower /\ [][NextPower]_vars

\* ---------------------------------------------------------------------------
\* Claims about the integration

Cutoff == t_now - WINDOW_SEC
Computed == c_op \in {"average", "energy"}
NSamples == Len(times)
\* the series has samples and starts inside the window
StartsInside == times # <<>> /\ times[1] >= Cutoff
\* the newest sample is inside the window and earlier than now
EndsBeforeNow == times # <<>> /\ times[NSamples] >= Cutoff /\ times[NSamples] < t_now
AllButLast(p) == SubSeq(p, 1, Len(p) - 1)

\* C21 as stated: when the oldest sample lies inside the window, no point is
\* put at the cutoff and the integration starts at the oldest sample, in the
\* average-power mode and in the energy mode.
C21_NoLeftPointInBothModes ==
    (Computed /\ StartsInside) => pts[1] = Pt(times[1], values[1])

\* C21: when the oldest sample lies inside the window, the energy mode puts no
\* point at the cutoff and starts at the oldest sample; the average-power mode
\* starts at the oldest sample only when it lies at the cutoff, and otherwise
\* starts at the point (cutoff, value of the oldest sample), put before it.
C21_LeftPointInAverageModeOnly ==
    (Computed /\ StartsInside) =>
        IF c_op = "average" /\ times[1] > Cutoff
          THEN /\ pts[1] = Pt(Cutoff, values[1])
               /\ pts[2] = Pt(times[1], values[1])
          ELSE pts[1] = Pt(times[1], values[1])

C21_Witness ==
    /\ c_op = "energy" /\ NSamples >= 2 /\ times[1] > Cutoff /\ times[2] > times[1]
    /\ values[1] # QZero
    /\ pts[1] = Pt(times[1], values[1])

\* C22 as stated: when the last sample is earlier than now, the point (now,
\* last value) is appended before integrating, in both modes.
C22_RightPointInBothModes ==
    (Computed /\ EndsBeforeNow) => pts[Len(pts)] = Pt(t_now, values[NSamples])

\* C22: when the last sample is inside the window and earlier than now, the
\* average-power mode appends the point (now, last value), and the interval
\* from the last sample to now adds last value * (now - t_last) ampere-seconds;
\* the energy mode appends nothing and ends at the last sample.
C22_RightPointInAverageModeOnly ==
    (Computed /\ EndsBeforeNow) =>
        IF c_op = "average"
          THEN /\ pts[Len(pts)] = Pt(t_now, values[NSamples])
               /\ pts[Len(pts) - 1] = Pt(times[NSamples], values[NSamples])
               /\ CurrentSeconds(pts, 1) =
                    QAdd(CurrentSeconds(AllButLast(pts), 1),
                         QMul(values[NSamples], QInt(t_now - times[NSamples])))
          ELSE pts[Len(pts)] = Pt(times[NSamples], values[NSamples])

C22_Witness ==
    /\ c_op = "average" /\ EndsBeforeNow /\ values[NSamples] # QZero
    /\ pts[Len(pts)] = Pt(t_now, values[NSamples])
    /\ result # QZero

\* C23: samples that all carry the same current I, the oldest at or before
\* now - window_sec and the newest at now, give V*I in the average-power mode
\* and V*I*window_sec/3600 in the energy mode, whatever the sample spacing.
ConstantCurrent(i) == \A k \in 1..NSamples : values[k] = i
SpansWindow == times # <<>> /\ times[1] <= Cutoff /\ times[NSamples] = t_now
C23_ConstantCurrent ==
    \A i \in Amps :
        (Computed /\ SpansWindow /\ ConstantCurrent(i)) =>
            result = IF c_op = "average"
                       THEN QMul(QInt(VOLTAGE_V), i)
                       ELSE QDiv(QMul(QMul(QInt(VOLTAGE_V), i), QInt(WINDOW_SEC)),
                                 QInt(SecondsPerHour))

C23_Witness ==
    /\ c_op = "energy" /\ times = <<0, 10, 64>> /\ t_now = 64
    /\ ConstantCurrent(QInt(3))
    /\ result = QInt(10)

\* C24: when the cutoff falls strictly between two consecutive samples, the
\* first integration point is (cutoff, i_prev + (i_next - i_prev) * (cutoff -
\* t_prev) / (t_next - t_prev)) and no sample before the cutoff is integrated;
\* for (0 s, 1 A), (10 s, 3 A) and cutoff 4 s the current is 9/5 A.
Straddles(k) == k < NSamples /\ times[k] < Cutoff /\ Cutoff < times[k + 1]
C24_InterpolatedAtCutoff ==
    /\ \A k \in 1..NSamples :
          (Computed /\ Straddles(k)) =>
              /\ pts[1] = Pt(Cutoff, QAdd(values[k],
                                QMul(QSub(values[k + 1], values[k]),
                                     Q(Cutoff - times[k], times[k + 1] - times[k]))))
              /\ \A j \in 1..Len(pts) : pts[j].t >= Cutoff
              /\ pts[2] = Pt(times[k + 1], values[k + 1])
    /\ (Computed /\ times = <<0, 10>> /\ values = <<QInt(1), QInt(3)>> /\ Cutoff = 4) =>
          pts[1] = Pt(4, Q(9, 5))

C24_Witness ==
    /\ c_op = "energy" /\ times = <<0, 10>> /\ values = <<QInt(1), QInt(3)>> /\ Cutoff = 4
    /\ pts = <<Pt(4, Q(9, 5)), Pt(10, QInt(3))>>

\* C25: both computations return 0.0 when the series is empty and when the
\* newest sample is earlier than now - window_sec.
C25_ZeroWithoutRecentSample ==
    (Computed /\ (times = <<>> \/ times[NSamples] < Cutoff)) => result = QZero

C25_Witness ==
    /\ c_op = "average" /\ times # <<>> /\ times[NSamples] < Cutoff
    /\ values[NSamples] # QZero
    /\ result = QZero

\* ---------------------------------------------------------------------------
\* The stability evaluation of test.py: _time_weighted_average and
\* _evaluate_stability

STABLE_MIN_DURATION_SEC == 60
\* STABLE_TOLERANCE_WH = 0.05
STABLE_TOLERANCE_WH == Q(1, 20)

\* the loop of _time_weighted_average from index k on: total and duration
RECURSIVE WeightedTotal(_, _, _)
WeightedTotal(ts, vs, k) ==
    IF k >= Len(ts) THEN QZero
    ELSE QAdd(IF ts[k + 1] <= ts[k] THEN QZero
              ELSE QMul(QMul(QHalf, QAdd(vs[k], vs[k + 1])), QInt(ts[k + 1] - ts[k])),
              WeightedTotal(ts, vs, k + 1))

RECURSIVE Duration(_, _)
Duration(ts, k) ==
    IF k >= Len(ts) THEN 0
    ELSE (IF ts[k + 1] <= ts[k] THEN 0 ELSE ts[k + 1] - ts[k]) + Duration(ts, k + 1)

\* (variant) the plain mean of the values
RECURSIVE SumValues(_, _)
SumValues(vs, k) == IF k > Len(vs) THEN QZero ELSE QAdd(vs[k], SumValues(vs, k + 1))
time_weighted_average_mean(ts, vs) ==
    IF ts = <<>> \/ vs = <<>> THEN None ELSE QDiv(SumValues(vs, 1), QInt(Len(vs)))

\* _time_weighted_average
time_weighted_average(ts, vs) ==
    IF ts = <<>> \/ vs = <<>> THEN None
    ELSE IF Len(ts) = 1 THEN vs[1]
    ELSE IF Duration(ts, 1) > 0
      THEN QDiv(WeightedTotal(ts, vs, 1), QInt(Duration(ts, 1)))
      ELSE vs[Len(vs)]

\* for i, t in enumerate(times): if t >= cutoff: start_idx = i; break
\* (start_idx stays 0 when no time is found)
RECURSIVE FirstFrom(_, _, _)
FirstFrom(ts, cutoff, k) ==
    IF k > Len(ts) THEN 0
    ELSE IF ts[k] >= cutoff THEN k - 1
    ELSE FirstFrom(ts, cutoff, k + 1)

RECURSIVE MaxOf(_, _)
MaxOf(vs, k) == IF k = Len(vs) THEN vs[k] ELSE QMax(vs[k], MaxOf(vs, k + 1))
RECURSIVE MinOf(_, _)
MinOf(vs, k) == IF k = Len(vs) THEN vs[k] ELSE QMin(vs[k], MinOf(vs, k + 1))

\* (variant) the span of the window not tested
TooShort_never(window_times) == FALSE

\* (window_times[-1] - window_times[0]).total_seconds() < STABLE_MIN_DURATION_SEC
TooShort(window_times) ==
    window_times[Len(window_times)] - window_times[1] < STABLE_MIN_DURATION_SEC

\* vmax - vmin <= STABLE_TOLERANCE_WH
WithinTolerance(window_values) ==
    QLe(QSub(MaxOf(window_values, 1), MinOf(window_values, 1)), STABLE_TOLERANCE_WH)

\* _evaluate_stability: the value it leaves in series["stable_avg"]
evaluate_stability(ts, vs) ==
    IF Len(ts) < 2 THEN None
    ELSE LET cutoff == ts[Len(ts)] - STABLE_MIN_DURATION_SEC
             start_idx == FirstFrom(ts, cutoff, 1)
             window_times == SubSeq(ts, start_idx + 1, Len(ts))
             window_values == SubSeq(vs, start_idx + 1, Len(vs))
         IN IF window_times = <<>> THEN None
            ELSE IF TooShort(window_times) THEN None
            ELSE IF WithinTolerance(window_values)
              THEN time_weighted_average(window_times, window_values)
              ELSE None

\* ---------------------------------------------------------------------------
\* SpecStable: the stability evaluation applied to power/energy series

\* the times of the points, in seconds
PointTimes == {0, 10, 30, 60, 61, 70}
\* the values of the points, in Wh
PointValues == {QInt(1), Q(26, 25), Q(6, 5)}

InitStable ==
    /\ op = "idle" /\ node = <<>> /\ sub = <<>> /\ sid = <<>> /\ cmd = <<>>
    /\ frame = NotCalled /\ raw = <<>> /\ parsed = NotParsed
    /\ ChanIdle /\ RxIdle /\ ExchIdle /\ ThreadIdle /\ SeriesIdle
    /\ c_op = "call"
    /\ \E n \in 0..MaxSamples :
          times \in SortedSeqs(PointTimes, n) /\ values \in [1..n -> PointValues]
    /\ t_now = 0
    /\ pts = <<>> /\ result = None

\* self._evaluate_stability(system_id)
DoEvaluateStability ==
    /\ c_op = "call"
    /\ c_op' = "stability"
    /\ result' = evaluate_stability(times, values)
    /\ UNCHANGED <<times, values, t_now, pts, calcFrame>>

NextStable == DoEvaluateStability

SpecStable == InitStable /\ [][NextStable]_vars

\* ---------------------------------------------------------------------------
\* Claims about the stability evaluation

Evaluated == c_op = "stability"
Latest == times[NSamples]
\* the points with timestamps in [latest - min_duration, latest]
SubWindow == {k \in 1..NSamples :
                 times[k] >= Latest - STABLE_MIN_DURATION_SEC /\ times[k] <= Latest}
SubFirst == CHOOSE k \in SubWindow : \A j \in SubWindow : k <= j
SubSpan == Latest - times[SubFirst]

\* C27: the evaluator reports None whenever the series has fewer than 2
\* points, or the points with timestamps in [latest - min_duration, latest]
\* span less than min_duration from first to last.
C27_UnstableWhenShort ==
    (Evaluated /\ (NSamples < 2 \/ SubSpan < STABLE_MIN_DURATION_SEC)) => result = None

C27_Witness ==
    /\ Evaluated /\ NSamples >= 3 /\ Cardinality(SubWindow) >= 2
    /\ SubSpan < STABLE_MIN_DURATION_SEC /\ SubSpan > 0
    /\ \A k \in 1..NSamples : values[k] = values[1]
    /\ result = None

\* C28: for a sub-window spanning at least min_duration, the evaluator reports
\* the trapezoid time-weighted average of the sub-window (the sum of
\* 0.5*(v_a+v_b)*(t_b-t_a) divided by the summed durations) when max(values) -
\* min(values) <= tolerance, and None when a value makes the range exceed it.
RECURSIVE TrapezoidSum(_)
TrapezoidSum(K) ==
    IF K = {} THEN QZero
    ELSE LET k == CHOOSE x \in K : TRUE
         IN QAdd(QMul(Q(values[k].n * values[k + 1].d + values[k + 1].n * values[k].d,
                        2 * values[k].d * values[k + 1].d),
                      QInt(times[k + 1] - times[k])),
                 TrapezoidSum(K \ {k}))
RangeWithin(tol) == \A j \in SubWindow : \A k \in SubWindow : QLe(QSub(values[j], values[k]), tol)
C28_AverageWhenWithinTolerance ==
    (Evaluated /\ NSamples >= 2 /\ SubSpan >= STABLE_MIN_DURATION_SEC) =>
        IF RangeWithin(STABLE_TOLERANCE_WH)
          THEN result = QDiv(TrapezoidSum(SubWindow \ {NSamples}), QInt(SubSpan))
          ELSE result = None

C28_Witness ==
    /\ Evaluated /\ times = <<0, 10, 60>>
    /\ values = <<QInt(1), Q(26, 25), Q(26, 25)>>
    /\ result = Q(311, 300)

\* C29 as stated: whenever the series has stayed within the tolerance for at
\* least min_duration up to its latest point, whatever the sampling interval,
\* the evaluator reports a settled value (not None) after that point.
StayedWithin(k) ==
    /\ Latest - times[k] >= STABLE_MIN_DURATION_SEC
    /\ \A i \in k..NSamples : \A j \in k..NSamples :
          QLe(QSub(values[i], values[j]), STABLE_TOLERANCE_WH)
C29_SettledAfterMinDuration ==
    (Evaluated /\ \E k \in 1..NSamples : StayedWithin(k)) => result # None

\* ---------------------------------------------------------------------------
\* The consumer: drain_results on the GUI thread, fed by the polling thread

MaxClock == 130
\* what the wall clock advances by between two looks at it, in seconds
ClockStep == 65
\* cutoff = now - dt.timedelta(seconds=120)
RETENTION_SEC == 120

\* time passes
ClockTick ==
    /\ clock + ClockStep <= MaxClock
    /\ clock' = clock + ClockStep
    /\ UNCHANGED <<codecVars, chanVars, rxVars, exchVars, threadVars, calcVars, dpc, temp_times,
                   temp_values, times_current, currents, times_power, power_wh, stable_avg,
                   inserted>>

\* the lists of readings a cycle can end with: the outer try is left at the
\* first read that raises, except that test.py's current reads do not raise
\* (a read that gives None stands for one that raises where the tuple queued
\* is the same)
Polled(v, r) ==
    IF r = "sv" THEN Readings("sv") \ {NoValue}
    ELSE IF r = "cur" /\ v = "test" THEN {NoValue, TenthsValue(10)}
    ELSE Readings(r)
CycleOutcomes(v) ==
    LET lens == IF v = "test" THEN {0, 1, 2, 4} ELSE 0..3
        all == Readings("pv") \cup Readings("sv") \cup Readings("cur")
    IN {vs \in UNION {[1..n -> all] : n \in lens} :
            \A k \in 1..Len(vs) : vs[k] \in Polled(v, Cycle(v)[k])}

\* (variant) the polling thread stores the time of its cycle in the
\* temperature series itself
WorkerCycle_plots ==
    /\ wpc = "lock"
    /\ io_lock = "free"
    /\ \E vs \in CycleOutcomes(variant) :
          result_q' = Append(result_q, [now |-> stamp, vals |-> Queued(variant, vs)])
    /\ wpc' = "wait"
    /\ temp_times' = Append(temp_times, stamp)
    /\ UNCHANGED <<codecVars, chanVars, rxVars, exchVars, calcVars, clock, dpc, temp_values,
                   times_current, currents, times_power, power_wh, stable_avg, inserted>>
    /\ UNCHANGED <<stamp, variant, rd, vals, cycles, io_lock, stop_evt, pending, portOpen, cpc>>

\* one polling cycle from the lock to the put, its reads taken together: the
\* tuple (now, pv, sv, currents) is queued
WorkerCycle ==
    /\ wpc = "lock"
    /\ io_lock = "free"
    /\ \E vs \in CycleOutcomes(variant) :
          result_q' = Append(result_q, [now |-> stamp, vals |-> Queued(variant, vs)])
    /\ wpc' = "wait"
    /\ UNCHANGED <<appFrame, stamp, variant, rd, vals, cycles, io_lock, stop_evt, pending,
                   portOpen, cpc>>

\* where a system's current stands in the queued readings
ReadingOf(v, s, vs) == IF s = "system_b" THEN vs[4] ELSE vs[3]

\* current_val = float(resp["value"]), of a reading that is not None
Amperes(x) == Q(x.n, 10)

\* (variant) nothing evicted
EvictCount_none(ts, cutoff) == 0

\* while self.current_times and self.current_times[0] < cutoff: pop(0)
\* (HeatCycle_Monitor.py; test.py has no such loop): how many are popped
RECURSIVE EvictCount(_, _)
EvictCount(ts, cutoff) ==
    IF ts # <<>> /\ ts[1] < cutoff THEN 1 + EvictCount(Tail(ts), cutoff) ELSE 0

Evictions(v, ts, now_) ==
    IF v = "monitor" THEN EvictCount(ts, now_ - RETENTION_SEC) ELSE 0

DropFirst(q, n) == SubSeq(q, n + 1, Len(q))

\* (variant) the newest tuple of the queue taken first
NextItem_newest(q) == q[Len(q)]

\* self.result_q.get_nowait()
NextItem(q) == Head(q)

Rest(q, item) ==
    IF item = Head(q) THEN Tail(q) ELSE SubSeq(q, 1, Len(q) - 1)

\* (variant) a reading of None taken as a value
Accepted_always(x) == TRUE

\* if pv.get("value") is not None / if resp.get("value") is None: continue
Accepted(x) == x.kind \notin {"none", "missing"}

\* (variant) the point stamped with the time of the drain
PointTime_clock(item) == clock

\* self.power_times.append(now): the time the power/energy point carries
PointTime(item) == item.now

\* the timer starts drain_results
DrainStart ==
    /\ dpc = "sched"
    /\ cpc = "idle"
    /\ dpc' = "run"
    /\ UNCHANGED <<codecVars, chanVars, rxVars, exchVars, threadVars, calcVars, clock, temp_times,
                   temp_values, times_current, currents, times_power, power_wh, stable_avg,
                   inserted>>

\* one pass of the while loop of drain_results: a tuple is taken from the
\* queue and its readings go to the series
DrainOne ==
    /\ dpc = "run"
    /\ result_q # <<>>
    /\ LET item == NextItem(result_q)
           accepted(s) == Accepted(ReadingOf(variant, s, item.vals))
           tc(s) == Append(times_current[s], item.now)
           cs(s) == Append(currents[s], Amperes(ReadingOf(variant, s, item.vals)))
           out(s) == IF variant = "monitor"
                       THEN compute_average_power_w(tc(s), cs(s), item.now, VOLTAGE_V, WINDOW_SEC)
                       ELSE integrate_power_wh(tc(s), cs(s), item.now, VOLTAGE_V, WINDOW_SEC)
           gone(s) == Evictions(variant, tc(s), item.now)
       IN /\ result_q' = Rest(result_q, item)
          /\ IF Accepted(item.vals[1])
               THEN /\ temp_times' = Append(temp_times, item.now)
                    /\ temp_values' = Append(temp_values, QInt(item.vals[1].n))
               ELSE UNCHANGED <<temp_times, temp_values>>
          /\ times_current' = [s \in Systems(variant) |->
                IF accepted(s) THEN DropFirst(tc(s), gone(s)) ELSE times_current[s]]
          /\ currents' = [s \in Systems(variant) |->
                IF accepted(s) THEN DropFirst(cs(s), gone(s)) ELSE currents[s]]
          /\ times_power' = [s \in Systems(variant) |->
                IF accepted(s) THEN Append(times_power[s], PointTime(item)) ELSE times_power[s]]
          /\ power_wh' = [s \in Systems(variant) |->
                IF accepted(s) THEN Append(power_wh[s], out(s)) ELSE power_wh[s]]
          /\ stable_avg' = [s \in Systems(variant) |->
                IF accepted(s) /\ variant = "test"
                  THEN evaluate_stability(Append(times_power[s], PointTime(item)),
                                          Append(power_wh[s], out(s)))
                  ELSE stable_avg[s]]
          /\ inserted' = [s \in Systems(variant) |->
                IF accepted(s)
                  THEN Append(inserted[s],
                              Pt(item.now, Amperes(ReadingOf(variant, s, item.vals))))
                  ELSE inserted[s]]
    /\ UNCHANGED <<codecVars, chanVars, rxVars, exchVars, calcVars, clock, dpc, variant, wpc, rd,
                   vals, cycles, io_lock, stop_evt, pending, portOpen, cpc, stamp>>

\* except queue.Empty: pass; if not self.stop_evt.is_set(): self.after(120, ...)
DrainEnd ==
    /\ dpc = "run"
    /\ result_q = <<>>
    /\ dpc' = IF stop_evt THEN "off" ELSE "sched"
    /\ UNCHANGED <<codecVars, chanVars, rxVars, exchVars, threadVars, calcVars, clock, temp_times,
                   temp_values, times_current, currents, times_power, power_wh, stable_avg,
                   inserted>>

DrainStep == DrainStart \/ DrainOne \/ DrainEnd

\* SpecSeries: the polling thread, the clock, the consumer and on_close
NextSeries ==
    \/ WorkerLoopTest \/ WorkerCycle \/ WorkerWait
    \/ ClockTick
    \/ DrainStep
    \/ CloseStep

SpecSeries == InitApp /\ [][NextSeries]_vars

\* ---------------------------------------------------------------------------
\* Claims about the series

Last(q) == q[Len(q)]
TimesOf(p) == [k \in 1..Len(p) |-> p[k].t]
ValuesOf(p) == [k \in 1..Len(p) |-> p[k].i]
IsSuffix(a, b) == Len(a) <= Len(b) /\ a = SubSeq(b, Len(b) - Len(a) + 1, Len(b))
\* the consumer inserts a current sample of system s in this step
Inserts(s) == inserted'[s] # inserted[s]
\* after the insertion: nothing older than twice the window before the sample
\* inserted, the front alone evicted, the sample inserted kept
PrunedAfterInsert(s) ==
    LET t == Last(inserted'[s]).t
    IN /\ \A k \in 1..Len(times_current'[s]) : times_current'[s][k] >= t - 2 * WINDOW_SEC
       /\ IsSuffix(times_current'[s], Append(times_current[s], t))
       /\ times_current'[s] # <<>>
       /\ Last(times_current'[s]) = t

NonDecreasing(ts) == \A k \in 1..(Len(ts) - 1) : ts[k] <= ts[k + 1]
AsEnergy(w) == QMul(w, Q(WINDOW_SEC, SecondsPerHour))
\* what the call made gave, set against what the other function gives for the
\* same arguments
ModesAgree ==
    /\ c_op = "average" =>
          AsEnergy(result) = integrate_power_wh(times, values, t_now, VOLTAGE_V, WINDOW_SEC)
    /\ c_op = "energy" =>
          result = AsEnergy(compute_average_power_w(times, values, t_now, VOLTAGE_V, WINDOW_SEC))

\* C36 as stated: for every series and now, the energy returned by
\* _integrate_power_wh equals the average power returned by
\* _compute_average_power_w multiplied by window_sec/3600.
C36_ModesAgreeAlways == Computed => ModesAgree

\* C36: the energy equals the average power multiplied by window_sec/3600 when
\* the series is empty, when its newest sample is older than now - window_sec,
\* and when its oldest sample is at or before now - window_sec and its newest
\* sample is at now.
NothingRecent == times = <<>> \/ times[NSamples] < Cutoff
C36_ModesAgreeOnCoveredWindow ==
    (Computed /\ (NothingRecent \/ SpansWindow)) => ModesAgree

C36_Witness ==
    /\ c_op = "energy" /\ times = <<0, 10, 64>> /\ t_now = 64
    /\ values = <<QInt(1), QInt(3), QInt(1)>>
    /\ result # QZero
    /\ ModesAgree

\* ---------------------------------------------------------------------------
\* Claims about non-hexadecimal fields

\* a character between STX and ETX (header fields, data payload) is not a
\* hexadecimal digit
NonHexField(r) == \E i \in 2..(Len(r) - 2) : r[i] \notin HexDigits

\* C33: a response whose markers and checksum are valid but whose header or
\* data payload holds a non-hexadecimal character is reported by
\* _parse_response with ok=False, and no read operation passes non-hexadecimal
\* text to the conversion to a number.
C33_NonHexIsDecodeError ==
    /\ (xpc \in {"decode", "done"} /\ ValidResponse(rxResult) /\ NonHexField(rxResult))
          => ~parsed.ok
    /\ ReadOpDone => outcome.exc # "ValueError"

\* ---------------------------------------------------------------------------
\* Claims about one pass of drain_results

\* a tuple leaves the queue in this step
Dequeues == Len(result_q') < Len(result_q)
IsNone(x) == x.kind \in {"none", "missing"}
SameSeries(s) ==
    /\ times_current'[s] = times_current[s] /\ currents'[s] = currents[s]
    /\ times_power'[s] = times_power[s] /\ power_wh'[s] = power_wh[s]
    /\ stable_avg'[s] = stable_avg[s]
    /\ inserted'[s] = inserted[s]

\* C37: a dequeued result whose reading is None leaves the series of that
\* reading unchanged: a None process value appends nothing to the temperature
\* series; a None current appends nothing to the system's current series nor
\* to its power/energy series, and its settled value stays as it was.
C37_NoneLeavesSeriesUnchanged ==
    [][Dequeues =>
          /\ IsNone(Head(result_q).vals[1]) =>
                temp_times' = temp_times /\ temp_values' = temp_values
          /\ \A s \in Systems(variant) :
                IsNone(ReadingOf(variant, s, Head(result_q).vals)) => SameSeries(s)]_vars

\* test.py after one cycle whose process value and system_a current were None
\* and whose system_b current was read, drained
C37_Witness ==
    /\ variant = "test" /\ cycles = 1 /\ wpc = "wait" /\ result_q = <<>>
    /\ temp_times = <<>>
    /\ inserted["system_a"] = <<>> /\ times_power["system_a"] = <<>>
    /\ Len(inserted["system_b"]) = 1 /\ Len(power_wh["system_b"]) = 1

\* C38: the paired lists of each series have equal length (temperature
\* times/values, current times/currents, power times/values), and each
\* accepted current sample has appended exactly one power/energy point, which
\* carries the sample's timestamp.
C38_PairedLists ==
    /\ Len(temp_times) = Len(temp_values)
    /\ \A s \in Systems(variant) :
          /\ Len(times_current[s]) = Len(currents[s])
          /\ Len(times_power[s]) = Len(power_wh[s])
          /\ times_power[s] = TimesOf(inserted[s])

\* HeatCycle_Monitor.py with two samples accepted at different times, the
\* first one evicted from the current series
C38_Witness ==
    /\ variant = "monitor" /\ dpc = "sched"
    /\ times_power["g3pw"] = <<0, 130>> /\ Len(power_wh["g3pw"]) = 2
    /\ times_current["g3pw"] = <<130>> /\ Len(currents["g3pw"]) = 1
    /\ Len(temp_times) = 1

\* ---------------------------------------------------------------------------
\* SpecBacklog: drain_results of HeatCycle_Monitor.py working through the
\* tuples of several polling cycles

MaxBacklog == 3

\* the times the cycles were stamped with
BacklogTimes == {t \in 0..MaxClock : t % ClockStep = 0}

InitBacklog ==
    /\ op = "idle" /\ node = <<>> /\ sub = <<>> /\ sid = <<>> /\ cmd = <<>>
    /\ frame = NotCalled /\ raw = <<>> /\ parsed = NotParsed
    /\ ChanIdle /\ RxIdle /\ ExchIdle /\ CalcIdle
    /\ variant = "monitor"
    /\ \E n \in 1..MaxBacklog :
          \E ts \in SortedSeqs(BacklogTimes, n) :
             \E items \in [1..n -> {Queued(variant, vs) : vs \in CycleOutcomes("monitor")}] :
                /\ result_q = [k \in 1..n |-> [now |-> ts[k], vals |-> items[k]]]
                /\ cycles = n /\ stamp = ts[n] /\ clock = ts[n]
    /\ wpc = "wait" /\ rd = 0 /\ vals = <<>>
    /\ io_lock = "free" /\ stop_evt = FALSE /\ pending = 0
    /\ portOpen = TRUE /\ cpc = "idle"
    /\ dpc = "sched" /\ SeriesEmpty(variant)

NextBacklog == DrainStart \/ DrainOne \/ DrainEnd

SpecBacklog == InitBacklog /\ [][NextBacklog]_vars

\* C35: pruning never changes a later result: at every insertion, gaps longer
\* than the retention horizon included, the average power computed on the
\* pruned current series equals the average power computed on the series of
\* all samples ever inserted.
C35_PruningChangesNoResult ==
    [][\A s \in Systems(variant) :
          (variant = "monitor" /\ Inserts(s)) =>
              Last(power_wh'[s]) =
                  compute_average_power_w(TimesOf(inserted'[s]), ValuesOf(inserted'[s]),
                                          Last(inserted'[s]).t, VOLTAGE_V, WINDOW_SEC)]_vars

\* ---------------------------------------------------------------------------
\* SpecThermal: recv_one_frame of the stand-alone poller thermal.py.  Its two
\* loops are those of _read_one_response (RxCall, RxWaitStx, RxWaitTimeout,
\* RxAccumulate); it keeps no seen_etx and returns by the length of buf.  None
\* is shown as the empty result: bytes(buf) is returned only with 3 bytes or
\* more.

\* return bytes(buf) if len(buf) >= 3 else None
MinReturnLen == 3

recv_result(b) == IF Len(b) >= MinReturnLen THEN b ELSE <<>>

\* bcc = ser.read(1) after the chunk holding ETX, break, and the return
ThReadBcc ==
    /\ rxpc = "bcc"
    /\ LET bcc == ReadBytes(1)
       IN /\ inbuf' = ReadRest(1)
          /\ rxRead' = rxRead \o bcc
          /\ buf' = buf \o bcc
          /\ rxResult' = recv_result(buf \o bcc)
    /\ rxpc' = "done"
    /\ UNCHANGED <<now, wire, arrived, end_time, seen_etx, rxFrame, events>>

\* the second loop ends on its condition, and the return
ThAccTimeout ==
    /\ rxpc = "acc"
    /\ now >= end_time
    /\ rxResult' = recv_result(buf)
    /\ rxpc' = "done"
    /\ UNCHANGED <<chanVars, end_time, buf, seen_etx, rxRead, rxFrame, events>>

NextThermal ==
    \/ Arrive \/ Tick
    \/ RxCall \/ RxWaitStx \/ RxWaitTimeout \/ RxAccumulate
    \/ ThReadBcc \/ ThAccTimeout

SpecThermal == InitRx /\ [][NextThermal]_vars

\* C40: recv_one_frame returns None whenever the deadline is exceeded before a
\* complete frame has been received, also when STX and some body bytes were
\* already read.
C40_NoneOnDeadline ==
    ( /\ rxpc = "done"
      /\ now >= end_time
      /\ ~Contains(SuffixFrom(rxRead, STX), ETX) ) => rxResult = <<>>

\* ---------------------------------------------------------------------------
\* SpecRxLive: _read_one_response when the calling thread keeps running and
\* the clock keeps advancing (perf_counter grows while the loops spin on
\* reads that return at once)

SpecRxLive == SpecRx /\ WF_vars(RxStep) /\ WF_vars(Tick)

\* C31: a call of _read_one_response moves only along waiting for the start
\* marker -> accumulating -> returned, never backwards; it leaves by a deadline
\* with the empty result and after the end marker with a non-empty one; and
\* with the clock advancing and each read returning at once, it does return.
C31_ForwardAndReturns ==
    /\ [][ /\ rxpc = "call" => rxpc' \in {"call", "wait"}
           /\ rxpc = "wait" => rxpc' \in {"wait", "acc", "done"}
           /\ rxpc = "acc" => rxpc' \in {"acc", "bcc", "done"}
           /\ rxpc = "bcc" => rxpc' \in {"bcc", "done"}
           /\ rxpc = "done" => rxpc' = "done"
           /\ (rxpc \in {"wait", "acc"} /\ rxpc' = "done") => rxResult' = <<>>
           /\ (rxpc = "bcc" /\ rxpc' = "done") => rxResult' # <<>> ]_vars
    /\ <>(rxpc = "done")

\* a call that returned a frame after the clock had advanced
C31_Witness ==
    /\ rxpc = "done" /\ now > 0 /\ now < end_time
    /\ Len(rxResult) >= 3 /\ rxResult[1] = STX

\* ---------------------------------------------------------------------------
\* Who changes the series (SpecSeries)

\* the lists and the settled averages the graphs are drawn from
Series ==
    <<temp_times, temp_values, times_current, currents, times_power, power_wh, stable_avg>>

\* a step of the polling thread
WorkerMoves == wpc' # wpc

\* C39: the series are changed only by a pass of drain_results (GUI thread);
\* a step of the polling thread leaves every series as it was and changes
\* nothing but the thread's own position, its cycle stamp and the result
\* queue, so no step changes a series while another context is changing it.
C39_SeriesOwnedByConsumer ==
    [][ /\ WorkerMoves => /\ Series' = Series
                          /\ dpc' = dpc /\ cpc' = cpc /\ stop_evt' = stop_evt
        /\ Series' # Series => /\ dpc = "run" /\ dpc' = "run"
                               /\ ~WorkerMoves
                               /\ Len(result_q') = Len(result_q) - 1 ]_vars

\* drain_results is between two passes with points already stored, while the
\* polling thread has queued a further tuple and sleeps
C39_Witness ==
    /\ dpc = "run" /\ temp_times # <<>>
    /\ wpc = "wait" /\ result_q # <<>> /\ ~stop_evt

\* ---------------------------------------------------------------------------
\* SpecStop: the polling thread, the consumer and on_close, with a polling
\* thread that keeps being scheduled while the process lives

PollStep == WorkerLoopTest \/ WorkerCycle \/ WorkerWait

NextStop == PollStep \/ DrainStep \/ CloseStep

SpecStop == InitApp /\ [][NextStop]_vars /\ WF_vars(PollStep)

\* tuples the polling thread will still put: one when it is inside a cycle
ToCome == IF wpc = "lock" THEN 1 ELSE 0

\* C34: once the stop signal is set the polling thread starts no cycle, puts
\* at most the one tuple of the cycle it was in, and exits; the tuples in the
\* queue are not taken out any more, and drain_results is neither run nor
\* scheduled again.
C34_StopsPollingAndDraining ==
    /\ [][stop_evt => /\ cycles' = cycles
                      /\ Len(result_q') + ToCome' = Len(result_q) + ToCome
                      /\ Len(result_q') >= Len(result_q)
                      /\ SubSeq(result_q', 1, Len(result_q)) = result_q
                      /\ dpc' \in {dpc, "off"}
                      /\ Series' = Series ]_vars
    /\ [](stop_evt => dpc # "run")
    /\ (stop_evt ~> wpc = "exited")

\* the session is over, the polling thread has exited after putting the tuple
\* of its last cycle, and tuples are left in the queue
C34_Witness ==
    /\ stop_evt /\ cpc = "done" /\ wpc = "exited" /\ dpc = "off"
    /\ Len(result_q) = 2 /\ cycles = 2

\* ---------------------------------------------------------------------------
\* SpecStart: App.__init__ from the opening of the port, then the session

\* variables App.__init__ leaves alone
startFrame ==
    <<codecVars, chanVars, rxVars, exchVars, calcVars, clock, temp_times, temp_values,
      times_current, currents, times_power, power_wh, stable_avg, inserted, stamp, variant, rd,
      vals, cycles, io_lock, stop_evt, result_q, pending>>

\* CompoWayFDriver(port=PORT) returns: the polling thread is started and
\* drain_results is scheduled
StartOpened ==
    /\ cpc = "start"
    /\ portOpen' = TRUE
    /\ wpc' = "loop"
    /\ dpc' = "sched"
    /\ cpc' = "idle"
    /\ UNCHANGED startFrame

\* (variant) the polling thread is started without a port
StartOpenFailed_pollsAnyway ==
    /\ cpc = "start"
    /\ portOpen' = FALSE
    /\ wpc' = "loop"
    /\ dpc' = "sched"
    /\ cpc' = "idle"
    /\ UNCHANGED startFrame

\* CompoWayFDriver(port=PORT) raises. test.py: showerror, self.destroy(),
\* sys.exit(1). HeatCycle_Monitor.py: self.cwf = None, self.worker = None,
\* drain_results is scheduled and the window runs.
StartOpenFailed ==
    /\ cpc = "start"
    /\ portOpen' = FALSE
    /\ wpc' = "none"
    /\ IF variant = "test"
         THEN cpc' = "exit" /\ dpc' = "off"
         ELSE cpc' = "idle" /\ dpc' = "sched"
    /\ UNCHANGED startFrame

StartStep == StartOpened \/ StartOpenFailed

\* App.__init__ is about to open the port
InitStart ==
    /\ op = "idle" /\ node = <<>> /\ sub = <<>> /\ sid = <<>> /\ cmd = <<>>
    /\ frame = NotCalled /\ raw = <<>> /\ parsed = NotParsed
    /\ ChanIdle /\ RxIdle /\ ExchIdle /\ CalcIdle
    /\ variant \in {"monitor", "test"}
    /\ clock = 0 /\ stamp = 0 /\ dpc = "off" /\ SeriesEmpty(variant)
    /\ wpc = "none" /\ rd = 0 /\ vals = <<>> /\ cycles = 0
    /\ io_lock = "free" /\ stop_evt = FALSE /\ result_q = <<>> /\ pending = 0
    /\ portOpen = FALSE /\ cpc = "start"

NextStart == StartStep \/ PollStep \/ DrainStep \/ CloseStep

SpecStart == InitStart /\ [][NextStart]_vars

\* the step of App.__init__ in which the port could not be opened
OpenFails == cpc = "start" /\ ~portOpen'

\* the session is ended by a failure (sys.exit), not by on_close
Terminated == cpc = "exit"

\* C32 as stated: in every variant a failed opening of the port ends the
\* session with no polling started, and nothing else ends it.
C32_OpenFailureFatalEverywhere ==
    [][ /\ OpenFails => (Terminated' /\ wpc' = "none")
        /\ Terminated' => (OpenFails \/ Terminated) ]_vars

\* C32 (amended): a failed opening of the port starts no polling in either
\* variant; it ends the session in test.py, while HeatCycle_Monitor.py goes
\* on without a polling thread; no other step, a cycle with failed reads
\* included, ends the session.
C32_OpenFailureStartsNoPolling ==
    /\ [][ /\ OpenFails => /\ wpc' = "none"
                           /\ variant = "test" => Terminated'
                           /\ variant = "monitor" => (cpc' = "idle" /\ dpc' = "sched")
           /\ Terminated' => (OpenFails \/ Terminated) ]_vars
    /\ [](wpc = "none" => (cycles = 0 /\ result_q = <<>> /\ SeriesEmpty(variant)))
    /\ [](Terminated => (variant = "test" /\ wpc = "none" /\ ~portOpen /\ dpc = "off"))

\* HeatCycle_Monitor.py has been closed by the user after a session without
\* a port
C32_Witness ==
    /\ variant = "monitor" /\ wpc = "none" /\ cpc = "done" /\ dpc = "off" /\ stop_evt

====
